---- MODULE Spec2Model ----
(***************************************************************************)
(* A verification model of the query / pagination / branch-resolution core *)
(* of the client SDK:                                                      *)
(*   - the immutable Query builder of packages/client/src/schema/query.ts  *)
(*     (filter objects live on a heap, because the constructor shares and  *)
(*     writes them by reference),                                          *)
(*   - the cache fingerprint Query.key(),                                  *)
(*   - getIterator / getAll paging,                                        *)
(*   - branch resolution of packages/client/src/client.ts.                 *)
(***************************************************************************)
EXTENDS Integers, Sequences, FiniteSets, TLC

(***************************************************************************)
(* Bounds of the model.                                                    *)
(***************************************************************************)
\* builder and execution calls a behaviour makes on the repositories' queries
MaxCalls == 3
\* only the first MaxSubquery queries are passed as any/all/not/none arguments
MaxSubquery == 2
\* the longest strategy list given as options.branch
MaxStrategies == 3
\* operations (queries, CRUD calls) started on one client
MaxOps == 3
\* pages the server holds, and records on one page
MaxPages == 3
MaxRecords == 2

VARIABLES
  objs,   \* the heap of filter objects: objs[id]
  qs,     \* the Query objects built so far: qs[i] = [table, root, data (#data)]
  legacy, \* the Query objects of client.ts built so far: [table, lists, sort]
  ncalls, \* builder and execution calls made so far
  last    \* history: the last call, what it was made on and what it produced

queryVars == <<objs, qs, legacy, ncalls, last>>

VARIABLES
  impl,       \* which client: "BaseClient" (getBranch) or "buildClient" (#getFetchProps)
  strategies, \* options.branch as a list of strategies
  source,     \* what each resolver returns when it is called now
  branch,     \* the client's memoized branch field
  ops,        \* the operations of the client in progress: ops[p]
  invoked,    \* history: how often the resolver at each list position was called
  writes,     \* history: how often the memoized branch field was assigned
  returned,   \* history: the values resolutions have returned so far
  requests    \* history: the transport calls issued, each with its branch

branchVars ==
  <<impl, strategies, source, branch, ops, invoked, writes, returned, requests>>

VARIABLES server, batch, iter, results, pageRequests
pageVars == <<server, batch, iter, results, pageRequests>>

VARIABLES
  links,       \* the client's link map: links[table] is a list of <<field, linkTable>>
  row,         \* the table and the raw row a hydration is given
  hydrated,    \* what initObject returned for it
  createOp,    \* the create in progress
  edit,        \* the last use a program made of the hydrated record
  recordCalls  \* history: the transport calls of the record operations

recordVars == <<links, row, hydrated, createOp, edit, recordCalls>>

VARIABLES
  navTable, \* the number of rows the server has for the query
  nav       \* the navigation calls made so far, each with the page it returned

navVars == <<navTable, nav>>

VARIABLES
  itServer,   \* the pages the server answers with, in the order of the requests
  itRun,      \* the iteration a program started: its method, options and consumer
  gen,        \* the async generator of getIterator: position and locals
  consumer,   \* the consumer of the generator: next() calls, batches, return()
  itRequests, \* history: the page requests of this run, in order
  itMores,    \* history: the more flags of the responses of this run, in order
  inflight,   \* requests sent and not yet answered
  itEvents    \* history: "request" and "yield" in the order they happened

iterVars ==
  <<itServer, itRun, gen, consumer, itRequests, itMores, inflight, itEvents>>

VARIABLE boot \* the construction of a client: its options, the environment, the outcome
configVars == <<boot>>

otherVars == <<recordVars, navVars, iterVars, configVars>>
exceptRecords == <<queryVars, branchVars, pageVars, navVars, iterVars, configVars>>
exceptNav == <<queryVars, branchVars, pageVars, recordVars, iterVars, configVars>>
exceptIter == <<queryVars, branchVars, pageVars, recordVars, navVars, configVars>>
exceptConfig == <<queryVars, branchVars, pageVars, recordVars, navVars, iterVars>>

vars == <<queryVars, branchVars, pageVars, otherVars>>

(***************************************************************************)
(* Values.                                                                 *)
(***************************************************************************)
\* JavaScript's undefined for an optional value: Undefined is <<>>, Value(v) is <<v>>
Undefined == <<>>
Value(v) == <<v>>

\* x ?? y
Coalesce(x, y) == IF x # Undefined THEN x ELSE y

Range(s) == {s[i] : i \in 1..Len(s)}

Tables == {"users", "teams"}

\* the four combinator keys of a filter object, in the order the constructor
\* assigns them
CombinatorKeys == <<"$any", "$all", "$not", "$none">>
Keys == Range(CombinatorKeys)

\* An element of a combinator list: a leaf constraint {[column]: constraint},
\* a reference to another filter object (a subquery's filter), or an
\* undefined array slot ([undefined].flat() keeps it until compact()).
Leaf(col, con) == [kind |-> "leaf", col |-> col, con |-> con, ref |-> 0]
Ref(id) == [kind |-> "ref", col |-> "", con |-> "", ref |-> id]
UndefinedElem == [kind |-> "undefined", col |-> "", con |-> "", ref |-> 0]

\* the constraints the callers of this model pass to filter()
ConAge == Leaf("age", "{\"$gt\":30}")
ConName == Leaf("name", "\"x\"")
Constraints == {ConAge, ConName}
\* constraint objects for filter(constraintsObject): the entries in
\* Object.entries order
ConstraintObjects == {<<>>, <<ConAge, ConName>>}

(***************************************************************************)
(* Filter objects.  A JavaScript object keeps its keys in insertion order, *)
(* and JSON.stringify walks them in that order, so an object is its key    *)
(* list plus the value of each key (Undefined: undefined or absent).            *)
(***************************************************************************)
NoValues == [k \in Keys |-> Undefined]

\* the object literal {} and the literal { [k]: list }
EmptyObject == [keys |-> <<>>, val |-> NoValues]
Literal(k, list) == [keys |-> <<k>>, val |-> [NoValues EXCEPT ![k] = Value(list)]]

\* o[k]
GetProp(o, k) == o.val[k]

\* o[k] = v : a new key goes to the end of the key list
SetProp(o, k, v) ==
  [keys |-> IF k \in Range(o.keys) THEN o.keys ELSE Append(o.keys, k),
   val |-> [o.val EXCEPT ![k] = v]]

\* Partial<QueryOptions> with every field undefined
NoOptions ==
  [filter |-> Undefined, sort |-> Undefined, columns |-> Undefined, pagination |-> Undefined,
   cache |-> Undefined]

\* a pagination object { size, offset, before }
PageOptions(size, offset, before) ==
  [size |-> size, offset |-> offset, before |-> before]

(***************************************************************************)
(* new Query(repository, table, data, parent): the resulting #data and the *)
(* heap after the constructor's writes.  data.filter, when given, is the   *)
(* object the new query keeps, and the four combinator keys are assigned   *)
(* on it in place; without data.filter the parent's object is kept.        *)
(***************************************************************************)
Constructor(h, data, parent) ==
  LET fresh == data.filter = Undefined /\ parent = Undefined
      h1 == IF fresh THEN Append(h, EmptyObject) ELSE h
      fid == IF data.filter # Undefined THEN data.filter[1]
             ELSE IF parent # Undefined THEN parent[1].filter
             ELSE Len(h1)
      ofData(k) == IF data.filter = Undefined THEN Undefined
                   ELSE GetProp(h[data.filter[1]], k)
      ofParent(k) == IF parent = Undefined THEN Undefined
                     ELSE GetProp(h[parent[1].filter], k)
      assign(o, k) == SetProp(o, k, Coalesce(ofData(k), ofParent(k)))
      written == assign(assign(assign(assign(h1[fid], "$any"), "$all"),
                               "$not"), "$none")
  IN [objs |-> [h1 EXCEPT ![fid] = written],
      data |-> [filter |-> fid,
                sort |-> IF data.sort # Undefined THEN data.sort
                         ELSE IF parent = Undefined THEN Undefined ELSE parent[1].sort,
                columns |-> IF data.columns # Undefined THEN data.columns[1]
                            ELSE IF parent = Undefined THEN <<"*">>
                            ELSE parent[1].columns,
                pagination |-> IF data.pagination # Undefined THEN data.pagination
                               ELSE IF parent = Undefined THEN Undefined
                               ELSE parent[1].pagination,
                cache |-> IF data.cache # Undefined THEN data.cache
                          ELSE IF parent = Undefined THEN Undefined
                          ELSE parent[1].cache]]

(***************************************************************************)
(* Array helpers of the builder.                                           *)
(***************************************************************************)
\* [x].flat(): an undefined x stays as one undefined slot, an array x is
\* spread (its elements are objects, so one level is all there is)
Flat(x) == IF x = Undefined THEN <<UndefinedElem>> ELSE x[1]

\* compact(arr): arr without its null / undefined slots
compact(arr) == SelectSeq(arr, LAMBDA e : e # UndefinedElem)

(***************************************************************************)
(* The builder methods, as functions of the heap h and of this.#data.      *)
(* Each allocates the object literal it passes as data.filter (when it     *)
(* passes one) and runs the constructor with this.#data as parent.         *)
(***************************************************************************)
WithFilter(h, this, k, list) ==
  LET h2 == Append(h, Literal(k, list))
  IN Constructor(h2, [NoOptions EXCEPT !.filter = Value(Len(h2))], Value(this))

\* the filter objects of the subqueries: query.getQueryOptions().filter ?? {}
SubFilters(queries) == [i \in 1..Len(queries) |-> Ref(queries[i].filter)]

\* an any() that appends to the $any list of this instead of replacing it
anyAppending(h, this, queries) ==
  WithFilter(h, this, "$any",
             compact(Flat(GetProp(h[this.filter], "$any"))) \o SubFilters(queries))

any(h, this, queries) == WithFilter(h, this, "$any", SubFilters(queries))

all(h, this, queries) == WithFilter(h, this, "$all", SubFilters(queries))

not(h, this, queries) == WithFilter(h, this, "$not", SubFilters(queries))

none(h, this, queries) == WithFilter(h, this, "$none", SubFilters(queries))

\* a filter() that forgets the $all list of this
filterReplacing(h, this, nargs, a) ==
  WithFilter(h, this, "$all",
             IF nargs = 1 THEN [i \in 1..Len(a) |-> a[i]] ELSE <<a[1]>>)

\* filter(a, b): nargs is arguments.length; with one argument a is the
\* constraints object (its entries), with two <<a>> is the entry {[a]: b}
filter(h, this, nargs, a) ==
  LET constraints == IF nargs = 1 THEN [i \in 1..Len(a) |-> a[i]] ELSE <<a[1]>>
      dollarAll == compact(Flat(GetProp(h[this.filter], "$all")) \o constraints)
  IN WithFilter(h, this, "$all", dollarAll)

sort(h, this, column, direction) ==
  LET originalSort == IF this.sort = Undefined THEN <<>> ELSE this.sort[1]
      newSort == Append(originalSort, [column |-> column, direction |-> direction])
  IN Constructor(h, [NoOptions EXCEPT !.sort = Value(newSort)], Value(this))

select(h, this, columns) ==
  Constructor(h, [NoOptions EXCEPT !.columns = Value(columns)], Value(this))

cache(h, this, ttl) ==
  Constructor(h, [NoOptions EXCEPT !.cache = Value(ttl)], Value(this))

(***************************************************************************)
(* JSON.stringify, as the text it produces.  A key whose value is          *)
(* undefined is left out; keys come in the object's own insertion order.   *)
(***************************************************************************)
RECURSIVE Join(_)
Join(texts) ==
  IF texts = <<>> THEN ""
  ELSE IF Len(texts) = 1 THEN texts[1]
  ELSE texts[1] \o "," \o Join(Tail(texts))

RECURSIVE StringifyFilterIn(_, _, _)
\* the text of the filter object h[id]; sorted = FALSE is JSON.stringify (the
\* keys in the object's insertion order), sorted = TRUE the same text with the
\* keys of every object in one fixed order
StringifyFilterIn(h, id, sorted) ==
  LET o == h[id]
      keyOrder(x) == IF sorted THEN CombinatorKeys ELSE x.keys
      elem(e) == IF e.kind = "leaf" THEN "{\"" \o e.col \o "\":" \o e.con \o "}"
                 ELSE IF e.kind = "ref" THEN StringifyFilterIn(h, e.ref, sorted)
                 ELSE "null"
      list(l) == "[" \o Join([i \in 1..Len(l) |-> elem(l[i])]) \o "]"
      present == SelectSeq(keyOrder(o), LAMBDA k : GetProp(o, k) # Undefined)
      entry(k) == "\"" \o k \o "\":" \o list(GetProp(o, k)[1])
  IN "{" \o Join([i \in 1..Len(present) |-> entry(present[i])]) \o "}"

StringifyFilter(h, id) == StringifyFilterIn(h, id, FALSE)

RECURSIVE Circular(_, _, _)
\* the object h[id] is met again inside itself (path: the objects around it)
Circular(h, id, path) ==
  \/ id \in path
  \/ \E k \in Keys :
       /\ GetProp(h[id], k) # Undefined
       /\ \E e \in Range(GetProp(h[id], k)[1]) :
            e.kind = "ref" /\ Circular(h, e.ref, path \cup {id})

\* what JSON.stringify throws on such an object
TypeError == "TypeError: Converting circular structure to JSON"

StringifySort(s) ==
  LET entry(e) == "{\"column\":\"" \o e.column \o "\",\"direction\":\""
                  \o e.direction \o "\"}"
  IN "[" \o Join([i \in 1..Len(s) |-> entry(s[i])]) \o "]"

StringifyColumns(c) ==
  "[" \o Join([i \in 1..Len(c) |-> "\"" \o c[i] \o "\""]) \o "]"

StringifyPagination(p) ==
  LET fields == <<"size", "offset", "before">>
      text(f) == IF f = "before" THEN "\"" \o p[f][1] \o "\"" ELSE ToString(p[f][1])
      present == SelectSeq(fields, LAMBDA f : p[f] # Undefined)
  IN "{" \o Join([i \in 1..Len(present) |->
                    "\"" \o present[i] \o "\":" \o text(present[i])]) \o "}"

\* JSON.stringify({ columns, filter, sort, pagination }) with the defaults of
\* key()'s destructuring: sort = [], pagination = {}
StringifyOptions(h, d, sorted) ==
  IF Circular(h, d.filter, {}) THEN TypeError
  ELSE "{\"columns\":" \o StringifyColumns(d.columns)
       \o ",\"filter\":" \o StringifyFilterIn(h, d.filter, sorted)
       \o ",\"sort\":" \o (IF d.sort = Undefined THEN "[]" ELSE StringifySort(d.sort[1]))
       \o ",\"pagination\":"
       \o (IF d.pagination = Undefined THEN "{}"
           ELSE StringifyPagination(d.pagination[1]))
       \o "}"

\* toBase64(text): an injective encoding of the text, kept as a tagged text
toBase64(text) == "base64(" \o text \o ")"

\* Query.key() of a query whose #data is d: the key, or the error thrown
key(h, d) ==
  LET text == StringifyOptions(h, d, FALSE)
  IN IF text = TypeError THEN TypeError ELSE toBase64(text)

(***************************************************************************)
(* The query builder as a state machine.                                   *)
(***************************************************************************)
\* the options of a query as getQueryOptions() shows them: the four
\* combinator lists of its filter object and its other options
Options(h, d) ==
  [lists |-> h[d.filter].val, sort |-> d.sort, columns |-> d.columns,
   pagination |-> d.pagination, cache |-> d.cache]

\* the same with the whole filter tree resolved to text, and key()
Resolved(h, d) ==
  [options |-> Options(h, d), text |-> StringifyOptions(h, d, TRUE),
   key |-> key(h, d)]

\* new Query(repository, table, {}): the base query of a repository
BaseQuery(h) == Constructor(h, NoOptions, Undefined)

\* The record of a call.  op: the method; src: the query it was called on;
\* res: the query a builder call returned (0: none); before: the options of
\* src when the call was made; request: the query an execution call handed to
\* repository.query(), as [table, options, text]; given / left: the filter
\* object the caller passed in its options, before and after the call.
NoCall ==
  [op |-> "none", src |-> 0, res |-> 0, nargs |-> 0, cons |-> <<>>,
   subs |-> <<>>, before |-> Options(BaseQuery(<<>>).objs, BaseQuery(<<>>).data),
   request |-> Undefined, given |-> Undefined, left |-> Undefined,
   response |-> <<>>, result |-> <<>>, records |-> <<>>]

\* the client's repositories exist: one base query per table
InitQuery ==
  LET users == BaseQuery(<<>>)
      teams == BaseQuery(users.objs)
  IN /\ objs = teams.objs
     /\ qs = <<[table |-> "users", root |-> TRUE, data |-> users.data],
               [table |-> "teams", root |-> TRUE, data |-> teams.data]>>
     /\ legacy = <<>>
     /\ ncalls = 0
     /\ last = NoCall

\* the new query object: appended, so its identity differs from every other's
Install(r, table, root, call) ==
  /\ objs' = r.objs
  /\ qs' = Append(qs, [table |-> table, root |-> root, data |-> r.data])
  /\ ncalls' = ncalls + 1
  /\ last' = [call EXCEPT !.res = Len(qs) + 1]
  /\ UNCHANGED <<legacy, branchVars, pageVars, otherVars>>

CallOn(op, q) ==
  [NoCall EXCEPT !.op = op, !.src = q, !.before = Options(objs, qs[q].data)]

CanCall == ncalls < MaxCalls

\* the queries a program can hold: the two base queries and one per call
QueryIds == 1..(2 + MaxCalls)

\* q is a query of schema/query.ts that exists
IsQuery(q) == q \in 1..Len(qs)

\* the lists of subqueries passed to any / all / not / none
SubqueryLists ==
  LET pool == 1..MaxSubquery
  IN {<<a>> : a \in pool} \cup {p \in pool \X pool : p[1] # p[2]}

SubData(subs) == [i \in 1..Len(subs) |-> qs[subs[i]].data]

Filter(q, nargs, a) ==
  /\ CanCall
  /\ IsQuery(q)
  /\ Install(filter(objs, qs[q].data, nargs, a), qs[q].table, FALSE,
             [CallOn("filter", q) EXCEPT !.nargs = nargs,
                                         !.cons = IF nargs = 1 THEN a ELSE <<a[1]>>])

AnyOf(q, subs) ==
  /\ CanCall
  /\ IsQuery(q)
  /\ \A i \in 1..Len(subs) : IsQuery(subs[i])
  /\ Install(any(objs, qs[q].data, SubData(subs)), qs[q].table, FALSE,
             [CallOn("$any", q) EXCEPT !.subs = subs])

AllOf(q, subs) ==
  /\ CanCall
  /\ IsQuery(q)
  /\ \A i \in 1..Len(subs) : IsQuery(subs[i])
  /\ Install(all(objs, qs[q].data, SubData(subs)), qs[q].table, FALSE,
             [CallOn("$all", q) EXCEPT !.subs = subs])

NotOf(q, subs) ==
  /\ CanCall
  /\ IsQuery(q)
  /\ \A i \in 1..Len(subs) : IsQuery(subs[i])
  /\ Install(not(objs, qs[q].data, SubData(subs)), qs[q].table, FALSE,
             [CallOn("$not", q) EXCEPT !.subs = subs])

NoneOf(q, subs) ==
  /\ CanCall
  /\ IsQuery(q)
  /\ \A i \in 1..Len(subs) : IsQuery(subs[i])
  /\ Install(none(objs, qs[q].data, SubData(subs)), qs[q].table, FALSE,
             [CallOn("$none", q) EXCEPT !.subs = subs])

Sort(q, column, direction) ==
  /\ CanCall
  /\ IsQuery(q)
  /\ Install(sort(objs, qs[q].data, column, direction), qs[q].table, FALSE,
             CallOn("sort", q))

Select(q, columns) ==
  /\ CanCall
  /\ IsQuery(q)
  /\ Install(select(objs, qs[q].data, columns), qs[q].table, FALSE,
             CallOn("select", q))

Cache(q, ttl) ==
  /\ CanCall
  /\ IsQuery(q)
  /\ Install(cache(objs, qs[q].data, ttl), qs[q].table, FALSE, CallOn("cache", q))

(***************************************************************************)
(* Execution.  Every execution method ends in getPaginated(options), which *)
(* builds the query to run with new Query(repository, table, options,      *)
(* this.#data) and hands it to repository.query().                         *)
(***************************************************************************)
getPaginated(h, this, options) == Constructor(h, options, Value(this))

\* the options each execution method passes down to getPaginated
getMany(options) == options

\* a getFirst that keeps the pagination of its caller
getFirstKeepingPagination(options) ==
  [options EXCEPT !.pagination =
     Coalesce(@, Value(PageOptions(Value(1), Undefined, Undefined)))]

\* getFirst: this.getMany({ ...options, pagination: { size: 1 } })
getFirst(options) ==
  [options EXCEPT !.pagination = Value(PageOptions(Value(1), Undefined, Undefined))]

\* what the execution methods return for the records of the response:
\* getMany the records, getFirst records[0] ?? null
Null == "null"
FirstOf(records) == IF records = <<>> THEN Null ELSE records[1]
Returns(method, records) ==
  CASE method = "getMany" -> records
    [] method = "getFirst" -> <<FirstOf(records)>>
    [] OTHER -> <<>>

\* the records a response carries
ResponseRecords == {<<>>, <<"rec1", "rec2">>}

\* one request of getIterator: { ...options, pagination: { size: batchSize, offset } }
IteratorRequest(options, batchSize, offset) ==
  [options EXCEPT
     !.pagination = Value(PageOptions(Value(batchSize), Value(offset), Undefined))]

firstPage(size, offset) ==
  [NoOptions EXCEPT !.pagination = Value(PageOptions(size, offset, Undefined))]

nextPage(size, offset) == firstPage(size, offset)

previousPage(size, offset) == firstPage(size, offset)

lastPage(size, offset) ==
  [NoOptions EXCEPT !.pagination = Value(PageOptions(size, offset, Value("end")))]

ExecutionMethods ==
  {"getPaginated", "getMany", "getFirst", "getIterator", "firstPage",
   "nextPage", "previousPage", "lastPage"}

\* What the callers of this model pass: a page size or none, no offset, and
\* options without a filter, with a filter object of their own, or with the
\* filter object of an existing query (its getQueryOptions().filter).
NoFilter == [kind |-> "none", object |-> EmptyObject, of |-> 0]
OwnFilter(object) == [kind |-> "own", object |-> object, of |-> 0]
FilterOf(j) == [kind |-> "query", object |-> EmptyObject, of |-> j]

CallerFilters ==
  {NoFilter, OwnFilter(Literal("$any", <<ConName>>))}
    \cup {FilterOf(j) : j \in 1..MaxSubquery}
CallerSizes == {Undefined, Value(2)}

PassedDown(method, options, size) ==
  CASE method = "getPaginated" -> options
    [] method = "getMany" -> getMany(options)
    [] method = "getFirst" -> getFirst(options)
    [] method = "getIterator" ->
         IteratorRequest(options, IF size = Undefined THEN 1 ELSE size[1], 0)
    [] method = "firstPage" -> firstPage(size, Undefined)
    [] method = "nextPage" -> nextPage(size, Undefined)
    [] method = "previousPage" -> previousPage(size, Undefined)
    [] method = "lastPage" -> lastPage(size, Undefined)

\* An execution call on query q.  A filter object of the caller's own lives
\* on the heap for the duration of the call; the query built for the request
\* is dropped after it has been handed over, the writes it made to the
\* objects it shares stay.
Execute(q, method, callerFilter, size, records) ==
  /\ CanCall
  /\ IsQuery(q)
  /\ method # "getFirst" => records = <<>>
  /\ method \in {"getFirst", "firstPage", "nextPage", "previousPage", "lastPage"}
       => callerFilter = NoFilter
  /\ callerFilter.kind = "query" => callerFilter.of \in 1..Len(qs)
  /\ LET h == IF callerFilter.kind = "own" THEN Append(objs, callerFilter.object)
              ELSE objs
         fid == IF callerFilter.kind = "own" THEN Len(h)
                ELSE IF callerFilter.kind = "query" THEN qs[callerFilter.of].data.filter
                ELSE 0
         options == [NoOptions EXCEPT
                       !.filter = IF fid = 0 THEN Undefined ELSE Value(fid),
                       !.pagination =
                          IF method = "getFirst" /\ size # Undefined
                          THEN Value(PageOptions(size, Undefined, Undefined))
                          ELSE Undefined]
         r == getPaginated(h, qs[q].data, PassedDown(method, options, size))
     IN /\ objs' = SubSeq(r.objs, 1, Len(objs))
        /\ last' = [CallOn(method, q) EXCEPT
                      !.request = Value([table |-> qs[q].table,
                                         options |-> Options(r.objs, r.data),
                                         text |-> StringifyOptions(r.objs, r.data, FALSE)]),
                      !.given = IF fid = 0 THEN Undefined ELSE Value(h[fid]),
                      !.left = IF fid = 0 THEN Undefined ELSE Value(r.objs[fid]),
                      !.response = records,
                      !.result = Returns(method, records)]
  /\ ncalls' = ncalls + 1
  /\ UNCHANGED <<qs, legacy>>
  /\ UNCHANGED <<branchVars, pageVars, otherVars>>

NextQuery ==
  \E q \in QueryIds :
       \/ \E c \in Constraints : Filter(q, 2, <<c>>)
       \/ \E o \in ConstraintObjects : Filter(q, 1, o)
       \/ \E subs \in SubqueryLists :
            AnyOf(q, subs) \/ AllOf(q, subs) \/ NotOf(q, subs) \/ NoneOf(q, subs)
       \/ Sort(q, "name", "asc")
       \/ Select(q, <<"name">>)
       \/ Cache(q, 1000)
       \/ \E m \in ExecutionMethods, f \in CallerFilters, size \in CallerSizes,
               records \in ResponseRecords :
            Execute(q, m, f, size, records)


(***************************************************************************)
(* The Query of client.ts.  Its lists are readonly fields of the query     *)
(* object itself, every builder makes its list with concat (a new array)   *)
(* and its $sort with a spread (a new object), so a query is its value.    *)
(* The elements of a combinator list are the subquery objects themselves.  *)
(***************************************************************************)
NoLegacyData == [lists |-> NoValues, sort |-> Undefined]

\* constructor: this.$any = parent?.$any; ... this.$sort = parent?.$sort;
\* Object.assign(this, data)
LegacyQuery(table, data, parent) ==
  LET ofParent(k) == IF parent = Undefined THEN Undefined ELSE parent[1].lists[k]
  IN [table |-> table,
      lists |-> [k \in Keys |-> Coalesce(data.lists[k], ofParent(k))],
      sort |-> Coalesce(data.sort,
                        IF parent = Undefined THEN Undefined ELSE parent[1].sort)]

\* (this.$k || []).concat(queries)
LegacyConcat(this, k, elems) ==
  LegacyQuery(this.table,
              [NoLegacyData EXCEPT
                 !.lists[k] = Value(Coalesce(this.lists[k], Value(<<>>))[1] \o elems)],
              Value(this))

legacyAny(this, queries) == LegacyConcat(this, "$any", queries)

legacyAll(this, queries) == LegacyConcat(this, "$all", queries)

legacyNot(this, queries) == LegacyConcat(this, "$not", queries)

legacyNone(this, queries) == LegacyConcat(this, "$none", queries)

\* filter(a, b): one { [column]: constraint } per entry of the constraints
\* object, or the one { [column]: value }
legacyFilter(this, nargs, a) ==
  LegacyConcat(this, "$all",
               IF nargs = 1 THEN [i \in 1..Len(a) |-> a[i]] ELSE <<a[1]>>)

\* sort(column, direction): { ...this.$sort, [column]: direction }
legacySort(this, column, direction) ==
  LET old == Coalesce(this.sort, Value(<<>>))[1]
      entry == [column |-> column, direction |-> direction]
      spread == IF \E i \in 1..Len(old) : old[i].column = column
                THEN [i \in 1..Len(old) |->
                        IF old[i].column = column THEN entry ELSE old[i]]
                ELSE Append(old, entry)
  IN LegacyQuery(this.table, [NoLegacyData EXCEPT !.sort = Value(spread)],
                 Value(this))

\* the repositories of a BaseClient: one base query per table
InitLegacy ==
  /\ objs = <<>>
  /\ qs = <<>>
  /\ legacy = <<LegacyQuery("users", NoLegacyData, Undefined),
                LegacyQuery("teams", NoLegacyData, Undefined)>>
  /\ ncalls = 0
  /\ last = NoCall

LegacyInstall(r, call) ==
  /\ legacy' = Append(legacy, r)
  /\ ncalls' = ncalls + 1
  /\ last' = [call EXCEPT !.res = Len(legacy) + 1]
  /\ UNCHANGED <<objs, qs, branchVars, pageVars, otherVars>>

LegacyCallOn(op, q) ==
  [NoCall EXCEPT !.op = op, !.src = q, !.before = legacy[q]]

\* q is a query of client.ts that exists
IsLegacyQuery(q) == q \in 1..Len(legacy)

LegacySubqueries(subs) == [i \in 1..Len(subs) |-> legacy[subs[i]]]

LegacyFilter(q, nargs, a) ==
  /\ CanCall
  /\ IsLegacyQuery(q)
  /\ LegacyInstall(legacyFilter(legacy[q], nargs, a),
                   [LegacyCallOn("filter", q) EXCEPT
                      !.nargs = nargs, !.cons = IF nargs = 1 THEN a ELSE <<a[1]>>])

LegacyAnyOf(q, subs) ==
  /\ CanCall
  /\ IsLegacyQuery(q)
  /\ \A i \in 1..Len(subs) : IsLegacyQuery(subs[i])
  /\ LegacyInstall(legacyAny(legacy[q], LegacySubqueries(subs)),
                   [LegacyCallOn("$any", q) EXCEPT !.subs = subs])

LegacyAllOf(q, subs) ==
  /\ CanCall
  /\ IsLegacyQuery(q)
  /\ \A i \in 1..Len(subs) : IsLegacyQuery(subs[i])
  /\ LegacyInstall(legacyAll(legacy[q], LegacySubqueries(subs)),
                   [LegacyCallOn("$all", q) EXCEPT !.subs = subs])

LegacyNotOf(q, subs) ==
  /\ CanCall
  /\ IsLegacyQuery(q)
  /\ \A i \in 1..Len(subs) : IsLegacyQuery(subs[i])
  /\ LegacyInstall(legacyNot(legacy[q], LegacySubqueries(subs)),
                   [LegacyCallOn("$not", q) EXCEPT !.subs = subs])

LegacyNoneOf(q, subs) ==
  /\ CanCall
  /\ IsLegacyQuery(q)
  /\ \A i \in 1..Len(subs) : IsLegacyQuery(subs[i])
  /\ LegacyInstall(legacyNone(legacy[q], LegacySubqueries(subs)),
                   [LegacyCallOn("$none", q) EXCEPT !.subs = subs])

LegacySort(q, column, direction) ==
  /\ CanCall
  /\ IsLegacyQuery(q)
  /\ LegacyInstall(legacySort(legacy[q], column, direction), LegacyCallOn("sort", q))

NextLegacy ==
  \E q \in QueryIds :
       \/ \E c \in Constraints : LegacyFilter(q, 2, <<c>>)
       \/ \E o \in ConstraintObjects : LegacyFilter(q, 1, o)
       \/ \E subs \in SubqueryLists :
            \/ LegacyAnyOf(q, subs) \/ LegacyAllOf(q, subs)
            \/ LegacyNotOf(q, subs) \/ LegacyNoneOf(q, subs)
       \/ LegacySort(q, "name", "asc") \/ LegacySort(q, "name", "desc")


(***************************************************************************)
(* Branch resolution.                                                      *)
(*                                                                         *)
(* Two clients resolve the branch the same way: BaseClient.getBranch, and  *)
(* the class of buildClient, whose #getFetchProps calls #evaluateBranch on *)
(* the wrapper that #parseOptions makes of options.branch (the wrapper     *)
(* calls #evaluateBranch again on the list itself).  Every await is a      *)
(* point where another operation of the same client may run.               *)
(***************************************************************************)
\* what a resolver may find in its environment
SourceValues == {"undefined", "main", "dev"}

\* a test that takes the empty string for a branch name
TruthyNotNullish(v) == v \notin {"undefined", "null"}

\* if (branch): undefined, null and "" are falsy
Truthy(v) == v \notin {"undefined", "null", ""}

Resolvers == {"r1"}

LiteralStrategy(v) == [kind |-> "literal", value |-> v, resolver |-> ""]
ResolverStrategy(r) == [kind |-> "resolver", value |-> "", resolver |-> r]

\* isBranchStrategyBuilder(strategy)
isBranchStrategyBuilder(strategy) == strategy.kind = "resolver"

StrategyElements ==
  {LiteralStrategy("undefined"), LiteralStrategy(""), LiteralStrategy("main"),
   ResolverStrategy("r1")}

RECURSIVE ListsUpTo(_, _)
ListsUpTo(S, n) ==
  IF n = 0 THEN {<<>>}
  ELSE LET shorter == ListsUpTo(S, n - 1)
       IN shorter \cup {Append(l, e) : l \in shorter, e \in S}

\* options.branch: Array.isArray(param) ? [...param] : [param]
StrategyLists == ListsUpTo(StrategyElements, MaxStrategies) \ {<<>>}

Ops == 1..MaxOps

\* An operation: pc is where it stands; i the list position of its loop;
\* value the branch its resolution produced; obs the values its own loop has
\* evaluated, in order; known the values earlier resolutions had returned
\* when it started.
IdleOp == [pc |-> "idle", i |-> 0, value |-> "undefined", obs |-> <<>>, known |-> {}]

InitBranch ==
  /\ impl \in {"BaseClient", "buildClient"}
  /\ strategies \in StrategyLists
  /\ source \in [Resolvers -> {"undefined", "main"}]
  /\ branch = "undefined"
  /\ ops = [p \in Ops |-> IdleOp]
  /\ invoked = [i \in 1..MaxStrategies |-> 0]
  /\ writes = 0
  /\ returned = {}
  /\ requests = <<>>

\* the environment behind a resolver changes
SourceChanges(r, v) ==
  /\ source[r] # v
  /\ source' = [source EXCEPT ![r] = v]
  /\ UNCHANGED <<impl, strategies, branch, ops, invoked, writes, returned, requests>>
  /\ UNCHANGED <<queryVars, pageVars, otherVars>>

\* evaluateBranch(strategy): a resolver is called, a literal is itself
evaluateBranch(strategy) ==
  IF isBranchStrategyBuilder(strategy) THEN source[strategy.resolver]
  ELSE strategy.value

\* where a resolution goes once it has its value: BaseClient.getBranch
\* returns it to the operation; #evaluateBranch(options.branch) returns it to
\* the outer #evaluateBranch(wrapper)
AfterValue(client) == IF client = "BaseClient" THEN "resolved" ELSE "outer"

\* the list is exhausted: getBranch throws, #evaluateBranch returns undefined
AfterLoop(client) == IF client = "BaseClient" THEN "failed" ELSE "outer"

\* a #getFetchProps without its check
getFetchPropsUnchecked(branchValue) == "resolved"

\* #getFetchProps: if (!branchValue) throw new Error('Unable to resolve branch value')
getFetchProps(branchValue) == IF Truthy(branchValue) THEN "resolved" ELSE "failed"

\* an operation that starts after a failed one and takes the list as
\* already exhausted
StartAfterFailure(p) ==
  /\ ops[p].pc = "idle"
  /\ \A o \in Ops : o < p => ops[o].pc # "idle"
  /\ ops' = [ops EXCEPT ![p] =
       IF Truthy(branch)
       THEN [@ EXCEPT !.pc = "resolved", !.value = branch, !.known = returned]
       ELSE [@ EXCEPT !.pc = IF impl = "BaseClient" THEN "loop" ELSE "wrapper",
                      !.i = IF \E o \in Ops : ops[o].pc = "failed"
                            THEN Len(strategies) + 1 ELSE 1,
                      !.known = returned]]
  /\ returned' = IF Truthy(branch) THEN returned \cup {branch} ELSE returned
  /\ UNCHANGED <<impl, strategies, source, branch, invoked, writes, requests>>
  /\ UNCHANGED <<queryVars, pageVars, otherVars>>

\* An operation starts and asks for the branch: if (this.branch) return this.branch
Start(p) ==
  /\ ops[p].pc = "idle"
  /\ \A o \in Ops : o < p => ops[o].pc # "idle"
  /\ ops' = [ops EXCEPT ![p] =
       IF Truthy(branch)
       THEN [@ EXCEPT !.pc = "resolved", !.value = branch, !.known = returned]
       ELSE [@ EXCEPT !.pc = IF impl = "BaseClient" THEN "loop" ELSE "wrapper",
                      !.i = 1, !.known = returned]]
  /\ returned' = IF Truthy(branch) THEN returned \cup {branch} ELSE returned
  /\ UNCHANGED <<impl, strategies, source, branch, invoked, writes, requests>>
  /\ UNCHANGED <<queryVars, pageVars, otherVars>>

\* buildClient only: the outer loop calls the wrapper, which calls
\* #evaluateBranch(options.branch): the memoized branch is looked at again
Wrapper(p) ==
  /\ ops[p].pc = "wrapper"
  /\ ops' = [ops EXCEPT ![p] =
       IF Truthy(branch) THEN [@ EXCEPT !.pc = "outer", !.value = branch]
       ELSE [@ EXCEPT !.pc = "loop"]]
  /\ UNCHANGED <<impl, strategies, source, branch, invoked, writes, returned, requests>>
  /\ UNCHANGED <<queryVars, pageVars, otherVars>>

\* one round of for await (const strategy of strategies)
Loop(p) ==
  /\ ops[p].pc = "loop"
  /\ LET i == ops[p].i IN
     IF i > Len(strategies)
     THEN /\ ops' = [ops EXCEPT ![p].pc = AfterLoop(impl), ![p].value = "undefined"]
          /\ UNCHANGED <<branch, invoked, writes, returned>>
     ELSE LET v == evaluateBranch(strategies[i]) IN
          /\ invoked' = IF isBranchStrategyBuilder(strategies[i])
                         THEN [invoked EXCEPT ![i] = @ + 1] ELSE invoked
          /\ IF Truthy(v)
             THEN /\ branch' = v
                  /\ writes' = writes + 1
                  /\ ops' = [ops EXCEPT ![p].pc = AfterValue(impl), ![p].value = v,
                                         ![p].obs = Append(@, v)]
                  /\ returned' = IF impl = "BaseClient" THEN returned \cup {v}
                                  ELSE returned
             ELSE /\ ops' = [ops EXCEPT ![p].i = i + 1, ![p].obs = Append(@, v)]
                  /\ UNCHANGED <<branch, writes, returned>>
  /\ UNCHANGED <<impl, strategies, source, requests>>
  /\ UNCHANGED <<queryVars, pageVars, otherVars>>

\* buildClient only: the outer #evaluateBranch has the wrapper's result:
\* if (branch) { this.#branch = branch; return branch }, else the one-element
\* outer list is exhausted; then #getFetchProps checks the value
Outer(p) ==
  /\ ops[p].pc = "outer"
  /\ LET v == ops[p].value IN
     /\ ops' = [ops EXCEPT ![p].pc = getFetchProps(v)]
     /\ IF Truthy(v)
        THEN /\ branch' = v
             /\ writes' = writes + 1
             /\ returned' = returned \cup {v}
        ELSE UNCHANGED <<branch, writes, returned>>
  /\ UNCHANGED <<impl, strategies, source, invoked, requests>>
  /\ UNCHANGED <<queryVars, pageVars, otherVars>>

\* the operation issues its transport call on the resolved branch
Request(p) ==
  /\ ops[p].pc = "resolved"
  /\ requests' = Append(requests, [op |-> p, branch |-> ops[p].value])
  /\ ops' = [ops EXCEPT ![p] = [IdleOp EXCEPT !.pc = "done", !.value = ops[p].value]]
  /\ UNCHANGED <<impl, strategies, source, branch, invoked, writes, returned>>
  /\ UNCHANGED <<queryVars, pageVars, otherVars>>

NextBranch ==
  \/ \E p \in Ops : Start(p) \/ Wrapper(p) \/ Loop(p) \/ Outer(p) \/ Request(p)
  \/ \E r \in Resolvers, v \in SourceValues : SourceChanges(r, v)

(***************************************************************************)
(* getAll and getIterator against a paged server.                          *)
(***************************************************************************)

\* schema/pagination: the page size getAll asks for when given no batchSize
PAGINATION_MAX_SIZE == 200

\* The server's table as the pages it answers with, in offset order: page j
\* carries the records <<j, 1>>, <<j, 2>>, ... and its more flag.
PageOf(j, n, more) ==
  [records |-> [r \in 1..n |-> <<j, r>>], meta |-> [page |-> [more |-> more]]]

RECURSIVE ServersOf(_)
ServersOf(len) ==
  IF len = 0 THEN {<<>>}
  ELSE {Append(sv, PageOf(len, n, more)) :
          sv \in ServersOf(len - 1), n \in 0..MaxRecords, more \in BOOLEAN}

\* the table is finite: the last page reports more = false
Servers ==
  UNION {{sv \in ServersOf(len) : ~sv[len].meta.page.more} : len \in 1..MaxPages}

EmptyPage == [records |-> <<>>, meta |-> [page |-> [more |-> FALSE]]]

\* this.#repository.query(query): one request for the page at the offset
query(sv, pagination) ==
  LET j == (pagination.offset \div pagination.size) + 1
  IN IF j <= Len(sv) THEN sv[j] ELSE EmptyPage

BatchSizes == {Undefined, Value(1), Value(2)}

IdleIterator == [pc |-> "idle", batchSize |-> 0, offset |-> 0, end |-> FALSE]

InitPages ==
  /\ server \in Servers
  /\ batch \in BatchSizes
  /\ iter = IdleIterator
  /\ results = <<>>
  /\ pageRequests = <<>>

\* getAll: const { batchSize = PAGINATION_MAX_SIZE, ...rest } = options;
\* results = []; getIterator: let offset = 0; let end = false
GetAll ==
  /\ iter.pc = "idle"
  /\ iter' = [pc |-> "loop", batchSize |-> Coalesce(batch, Value(PAGINATION_MAX_SIZE))[1],
              offset |-> 0, end |-> FALSE]
  /\ results' = <<>>
  /\ UNCHANGED <<server, batch, pageRequests>>
  /\ UNCHANGED <<queryVars, branchVars, otherVars>>

\* an iterator that stops after its first page
IteratorEndAfterOne(meta) == TRUE
\* an iterator that never ends
IteratorEndNever(meta) == FALSE

\* end = !meta.page.more
IteratorEnd(meta) == ~meta.page.more

\* one round of while (!end): request the page, yield its records to getAll,
\* which pushes them onto results, then advance
IteratorRound ==
  /\ iter.pc = "loop"
  /\ ~iter.end
  /\ LET pagination == [size |-> iter.batchSize, offset |-> iter.offset]
         page == query(server, pagination)
     IN /\ pageRequests' = Append(pageRequests, pagination)
        /\ results' = results \o page.records
        /\ iter' = [iter EXCEPT !.offset = iter.offset + iter.batchSize,
                                !.end = IteratorEnd(page.meta)]
  /\ UNCHANGED <<server, batch>>
  /\ UNCHANGED <<queryVars, branchVars, otherVars>>

\* the loop condition fails, the generator is done and getAll returns results
GetAllReturn ==
  /\ iter.pc = "loop"
  /\ iter.end
  /\ iter' = [iter EXCEPT !.pc = "returned"]
  /\ UNCHANGED <<server, batch, results, pageRequests>>
  /\ UNCHANGED <<queryVars, branchVars, otherVars>>

NextPages == GetAll \/ IteratorRound \/ GetAllReturn

(***************************************************************************)
(* Records: BaseClient.initObject and RestRepository.create / read.        *)
(***************************************************************************)
\* A JavaScript value: t is its type, s the text of a string, o the object.
\* An object has its own enumerable keys in insertion order (keys), their
\* values (val), its non-enumerable methods (hidden: name -> <<table, id>>
\* of the repository call the method makes) and whether it is frozen.
NoObject == [keys |-> <<>>, val |-> <<>>, hidden |-> <<>>, frozen |-> FALSE]
JsUndefined == [t |-> "undefined", s |-> "", o |-> NoObject]
JsNull == [t |-> "null", s |-> "", o |-> NoObject]
JsString(s) == [t |-> "string", s |-> s, o |-> NoObject]
JsObject(o) == [t |-> "object", s |-> "", o |-> o]
\* a closure that calls db[table].read(id) when invoked
JsReader(table, id) == [t |-> "function", s |-> table, o |-> id]

JsTruthy(v) == ~(v.t \in {"undefined", "null"} \/ (v.t = "string" /\ v.s = ""))

\* an object literal { k1: v1, k2: v2, ... }, given as a list of <<key, value>>
ObjectOf(entries) ==
  [ keys |-> [i \in 1..Len(entries) |-> entries[i][1]],
    val |-> [k \in {entries[i][1] : i \in 1..Len(entries)} |->
               (CHOOSE i \in 1..Len(entries) : entries[i][1] = k) ] ,
    hidden |-> <<>>, frozen |-> FALSE ]

Entries(entries) ==
  LET o == ObjectOf(entries)
  IN  [o EXCEPT !.val = [k \in DOMAIN o.val |-> entries[o.val[k]][2]]]

\* o[k]
JsGet(o, k) == IF k \in DOMAIN o.val THEN o.val[k] ELSE JsUndefined

\* o[k] = v on an object that has the key or not
JsSet(o, k, v) ==
  [o EXCEPT !.keys = IF k \in DOMAIN o.val THEN @ ELSE Append(@, k),
            !.val = [x \in DOMAIN o.val \cup {k} |-> IF x = k THEN v ELSE o.val[x]]]

\* Object.assign({}, object): the own enumerable properties; null and
\* undefined sources are skipped
Assign(object) ==
  IF object.t = "object"
  THEN [keys |-> object.o.keys, val |-> object.o.val, hidden |-> <<>>, frozen |-> FALSE]
  ELSE NoObject

\* the links of table users, whatever the table
TableLinksOfUsers(lk, table) == IF "users" \in DOMAIN lk THEN lk["users"] ELSE <<>>

\* this.links[table] || []
TableLinks(lk, table) == IF table \in DOMAIN lk THEN lk[table] ELSE <<>>

\* { id, get: () => { this.db[linkTable].read(id) } }
LinkRef(linkTable, id) ==
  Entries(<<<<"id", id>>, <<"get", JsReader(linkTable, id)>>>>)

\* the methods bound to db.users whatever the table
BindToUsers(o, table) ==
  [o EXCEPT !.hidden = [m \in {"read", "update", "delete"} |-> <<"users", JsGet(o, "id")>>],
            !.frozen = TRUE]

\* the methods bound, the object left as it is
BindUnfrozen(o, table) ==
  [o EXCEPT !.hidden = [m \in {"read", "update", "delete"} |-> <<table, JsGet(o, "id")>>]]

\* o.read, o.update, o.delete bound to db[table] and o['id'], made
\* non-enumerable; Object.freeze(o)
Bind(o, table) ==
  [o EXCEPT !.hidden = [m \in {"read", "update", "delete"} |-> <<table, JsGet(o, "id")>>],
            !.frozen = TRUE]

\* Object.keys(value).find((col) => col === 'id')
FindId(value) == \E i \in 1..Len(value.o.keys) : value.o.keys[i] = "id"

RECURSIVE initObject(_, _, _)
RECURSIVE initLinks(_, _, _, _)
\* for (const link of tableLinks) { ... } from position i on
initLinks(lk, table, o, i) ==
  LET tableLinks == TableLinks(lk, table)
  IN  IF i > Len(tableLinks) THEN o
      ELSE LET field == tableLinks[i][1]
               linkTable == tableLinks[i][2]
               value == JsGet(o, field)
               id == IF value.t = "object" THEN JsGet(value.o, "id") ELSE JsUndefined
               o2 == IF JsTruthy(value) /\ value.t = "object"
                     THEN IF FindId(value)
                          THEN JsSet(o, field, JsObject(initObject(lk, linkTable, value)))
                          ELSE IF JsTruthy(id)
                               THEN JsSet(o, field, JsObject(LinkRef(linkTable, id)))
                               ELSE o
                     ELSE o
           IN  initLinks(lk, table, o2, i + 1)

initObject(lk, table, object) == Bind(initLinks(lk, table, Assign(object), 1), table)


\* transformObjectLinks(object): a value that is an object with a string id
\* is replaced by that id
transformObjectLinks(object) ==
  [object EXCEPT !.val = [k \in DOMAIN object.val |->
     LET value == object.val[k]
     IN  IF JsTruthy(value) /\ value.t = "object" /\ JsGet(value.o, "id").t = "string"
         THEN JsGet(value.o, "id")
         ELSE value]]

MaxRecordCalls == 3

\* The link maps a client is constructed with.
LinkMaps ==
  { [users |-> <<<<"author", "authors">>>>, authors |-> <<<<"team", "teams">>>>],
    [users |-> <<>>] }

\* The values a raw row has in its link column.
OnlyId == JsObject(Entries(<<<<"id", JsString("a1")>>>>))
RawLinkValues ==
  { JsUndefined, JsNull, JsString("a1"), OnlyId,
    JsObject(Entries(<<<<"id", JsString("a1")>>, <<"name", JsString("Ann")>>>>)),
    JsObject(Entries(<<<<"name", JsString("Ann")>>>>)),
    JsObject(Entries(<<<<"id", JsString("")>>>>)),
    JsObject(Entries(<<<<"id", JsString("a1")>>,
                       <<"team", JsObject(Entries(<<<<"id", JsString("t1")>>>>))>>>>)),
    JsObject(Entries(<<<<"id", JsString("a1")>>,
                       <<"team", JsObject(Entries(<<<<"id", JsString("t1")>>,
                                                    <<"name", JsString("Core")>>>>))>>>>)) }

\* { id: "1", xata: { version: 0 }, author: value }, without the author key
\* when the row has no such column
RowWith(value) ==
  LET base == <<<<"id", JsString("1")>>,
                <<"xata", JsObject(Entries(<<<<"version", JsString("0")>>>>))>>>>
  IN  JsObject(Entries(IF value = JsUndefined THEN base
                       ELSE Append(base, <<"author", value>>)))

RawRows == {[table |-> "users", object |-> RowWith(v)] : v \in RawLinkValues}

\* the objects a program creates: { name: "Ann", author: value }
NewObjects ==
  { Entries(<<<<"name", JsString("Ann")>>>>),
    Entries(<<<<"name", JsString("Ann")>>, <<"author", OnlyId>>>>) }

\* What getRecord answers for the id insertRecord returned: the saved row,
\* nothing, or an error response that the fetcher throws.
SavedRow(id, body) ==
  JsObject([keys |-> <<"id">> \o body.keys,
            val |-> [k \in {"id"} \cup DOMAIN body.val |->
                       IF k = "id" THEN JsString(id)
                       ELSE IF k = "author" THEN JsObject(Entries(<<<<"id", body.val[k]>>>>))
                       ELSE body.val[k]],
            hidden |-> <<>>, frozen |-> FALSE])
GetRecordAnswers == {"row", "nothing", "throws"}

\* what the transport does with a request: it answers, or the call fails and
\* the awaited promise rejects
Outcomes == {"answers", "fails"}

MaxEdits == 1
MaxInvocations == 1

\* o[k] = v, o[k] = f for a method and delete o[k] by a program: a frozen
\* object keeps its properties (the statement throws in strict code and is
\* ignored otherwise)
JsAssign(o, k, v) == IF o.frozen THEN o ELSE JsSet(o, k, v)
JsAssignMethod(o, m, f) ==
  IF o.frozen THEN o
  ELSE IF m \in DOMAIN o.hidden
       THEN [o EXCEPT !.hidden = [x \in DOMAIN o.hidden |-> IF x = m THEN f ELSE o.hidden[x]]]
       ELSE JsSet(o, m, JsReader(f[1], f[2]))
JsDelete(o, k) ==
  IF o.frozen \/ k \notin DOMAIN o.val THEN o
  ELSE [o EXCEPT !.keys = SelectSeq(@, LAMBDA x : x # k),
                 !.val = [x \in DOMAIN o.val \ {k} |-> o.val[x]]]

\* the objects a program reaches from the hydrated record: the record,
\* record.author and record.xata
EditTargets == {"record", "author", "xata"}
EditKinds == {"assign", "method", "delete"}
EditKeys == {"id", "author", "extra"}
TargetValue(target) ==
  IF target = "record" THEN hydrated ELSE JsGet(hydrated.o, target)
WithTarget(target, o) ==
  IF target = "record" THEN JsObject(o)
  ELSE [hydrated EXCEPT !.o.val[target] = JsObject(o)]

\* the transport call a method of RestRepository makes
TransportOf(m) ==
  CASE m = "read" -> "getRecord"
    [] m = "update" -> "insertRecordWithID"
    [] m = "delete" -> "deleteRecord"

\* what the server answers to update(id, { name: "Bob" })
UpdateResponse(id) == JsObject(Entries(<<<<"id", id>>, <<"name", JsString("Bob")>>>>))
TransportAnswers == {"row", "throws"}

NoEdit ==
  [attempts |-> 0, target |-> "", kind |-> "", wasRecord |-> FALSE,
   before |-> JsUndefined, invocations |-> 0, on |-> "", method |-> "", call |-> <<>>,
   updated |-> JsUndefined, error |-> ""]

\* pc: "idle", "inserted" (insertRecord answered, read not yet),
\* "read" (this.read returned), "returned", "threw"
IdleCreate(object) ==
  [pc |-> "idle", method |-> "create", object |-> object, id |-> "", answer |-> "",
   calls |-> <<>>, finalObject |-> JsUndefined, result |-> JsUndefined, error |-> ""]

\* create(object), or createMany([object]) whose one record is object
CreateMethods == {"create", "createMany"}
InsertOf(method) ==
  IF method = "create" THEN "insertRecord" ELSE "bulkInsertTableRecords"

InitRecords ==
  /\ links \in LinkMaps
  /\ row \in RawRows
  /\ hydrated = JsUndefined
  /\ createOp \in {[IdleCreate(o) EXCEPT !.method = m] : o \in NewObjects, m \in CreateMethods}
  /\ edit = NoEdit
  /\ recordCalls = <<>>

\* client.initObject(table, object) on a raw row
Hydrate ==
  /\ hydrated = JsUndefined
  /\ hydrated' = JsObject(initObject(links, row.table, row.object))
  /\ UNCHANGED <<links, row, createOp, edit, recordCalls>>
  /\ UNCHANGED exceptRecords

\* the program invokes record.read() on the hydrated record
InvokeRead ==
  /\ hydrated.t = "object"
  /\ Len(recordCalls) < MaxRecordCalls
  /\ recordCalls' = Append(recordCalls,
       [call |-> "getRecord", table |-> hydrated.o.hidden["read"][1],
        arg |-> hydrated.o.hidden["read"][2]])
  /\ UNCHANGED <<links, row, hydrated, createOp, edit>>
  /\ UNCHANGED exceptRecords

\* the program invokes the accessor of a link column: record.author.get(),
\* or record.author.read() where the column holds a record
InvokeLink ==
  /\ hydrated.t = "object"
  /\ Len(recordCalls) < MaxRecordCalls
  /\ LET author == JsGet(hydrated.o, "author")
     IN  /\ author.t = "object"
         /\ \/ /\ JsGet(author.o, "get").t = "function"
               /\ recordCalls' = Append(recordCalls,
                    [call |-> "getRecord", table |-> JsGet(author.o, "get").s,
                     arg |-> JsGet(author.o, "get").o])
            \/ /\ "read" \in DOMAIN author.o.hidden
               /\ recordCalls' = Append(recordCalls,
                    [call |-> "getRecord", table |-> author.o.hidden["read"][1],
                     arg |-> author.o.hidden["read"][2]])
  /\ UNCHANGED <<links, row, hydrated, createOp, edit>>
  /\ UNCHANGED exceptRecords

\* create: record = transformObjectLinks(object); response = await
\* insertRecord(...); createMany: records = objects.map(transformObjectLinks);
\* response = await bulkInsertTableRecords(...). A call that fails throws
\* out of the method.
CreateInsert(outcome) ==
  /\ createOp.pc = "idle"
  /\ Len(recordCalls) < MaxRecordCalls - 1
  /\ recordCalls' = Append(recordCalls,
       [call |-> InsertOf(createOp.method), table |-> "users",
        arg |-> JsObject(transformObjectLinks(createOp.object))])
  /\ createOp' =
       IF outcome = "fails"
       THEN [createOp EXCEPT !.pc = "threw", !.error = "FetcherError",
                             !.calls = Append(@, InsertOf(createOp.method))]
       ELSE [createOp EXCEPT !.pc = "inserted", !.id = "rec1",
                             !.calls = Append(@, InsertOf(createOp.method))]
  /\ UNCHANGED <<links, row, hydrated, edit>>
  /\ UNCHANGED exceptRecords

\* this.read(response.id), for createMany the reads of response.recordIDs:
\* response = await getRecord(...);
\* return this.client.initObject(this.table, response)
CreateRead(answer) ==
  /\ createOp.pc = "inserted"
  /\ recordCalls' = Append(recordCalls,
       [call |-> "getRecord", table |-> "users", arg |-> JsString(createOp.id)])
  /\ createOp' =
       IF answer = "throws"
       THEN [createOp EXCEPT !.pc = "threw", !.answer = answer, !.error = "FetcherError",
                             !.calls = Append(@, "getRecord")]
       ELSE [createOp EXCEPT !.pc = "read", !.answer = answer,
               !.calls = Append(@, "getRecord"),
               !.finalObject = JsObject(initObject(links, "users",
                  IF answer = "row"
                  THEN SavedRow(createOp.id, transformObjectLinks(createOp.object))
                  ELSE JsNull))]
  /\ UNCHANGED <<links, row, hydrated, edit>>
  /\ UNCHANGED exceptRecords

\* if (!finalObject) throw new Error('The server failed to save the record');
\* return finalObject (createMany: if (finalObjects.some((object) => !object))
\* throw ...; return finalObjects, here the list of that one object)
CreateReturn ==
  /\ createOp.pc = "read"
  /\ createOp' =
       IF ~JsTruthy(createOp.finalObject)
       THEN [createOp EXCEPT !.pc = "threw",
                             !.error = "The server failed to save the record"]
       ELSE [createOp EXCEPT !.pc = "returned", !.result = createOp.finalObject]
  /\ UNCHANGED <<links, row, hydrated, edit, recordCalls>>
  /\ UNCHANGED exceptRecords

\* the program assigns, adds or deletes a property of the record or of an
\* object the record holds
Mutate(target, kind, k) ==
  /\ hydrated.t = "object"
  /\ TargetValue(target).t = "object"
  /\ edit.attempts < MaxEdits
  /\ LET o == TargetValue(target).o
         o2 == CASE kind = "assign" -> JsAssign(o, k, JsString("changed"))
                 [] kind = "method" -> JsAssignMethod(o, "read", <<"none", JsUndefined>>)
                 [] kind = "delete" -> JsDelete(o, k)
     IN  /\ hydrated' = WithTarget(target, o2)
         /\ edit' = [edit EXCEPT !.attempts = @ + 1, !.target = target, !.kind = kind,
                                 !.wasRecord = (DOMAIN o.hidden # {}), !.before = hydrated]
  /\ UNCHANGED <<links, row, createOp, recordCalls>>
  /\ UNCHANGED exceptRecords

\* the program invokes record.read(), record.update({ name: "Bob" }) or
\* record.delete(), or those of record.author: db[table].read(o.id),
\* db[table].update(o.id, data), db[table].delete(o.id), each one transport
\* call; read and update return initObject(table, response)
InvokeMethod(target, m, answer) ==
  /\ hydrated.t = "object"
  /\ TargetValue(target).t = "object"
  /\ m \in DOMAIN TargetValue(target).o.hidden
  /\ edit.invocations < MaxInvocations
  /\ Len(recordCalls) < MaxRecordCalls
  /\ LET bound == TargetValue(target).o.hidden[m]
         call == [call |-> TransportOf(m), table |-> bound[1], arg |-> bound[2]]
     IN  /\ recordCalls' = Append(recordCalls, call)
         /\ edit' = [edit EXCEPT
              !.invocations = @ + 1, !.on = target, !.method = m, !.call = <<call>>,
              !.updated = IF m = "update" /\ answer = "row"
                          THEN JsObject(initObject(links, bound[1], UpdateResponse(bound[2])))
                          ELSE JsUndefined,
              !.error = IF answer = "throws" THEN "FetcherError" ELSE ""]
  /\ UNCHANGED <<links, row, hydrated, createOp>>
  /\ UNCHANGED exceptRecords

NextRecords ==
  \/ Hydrate
  \/ \E target \in EditTargets, kind \in EditKinds, k \in EditKeys : Mutate(target, kind, k)
  \/ \E target \in {"record", "author"}, m \in {"read", "update", "delete"},
        answer \in TransportAnswers : InvokeMethod(target, m, answer)
  \/ InvokeRead
  \/ InvokeLink
  \/ \E outcome \in Outcomes : CreateInsert(outcome)
  \/ \E answer \in GetRecordAnswers : CreateRead(answer)
  \/ CreateReturn

(***************************************************************************)
(* Page navigation: the Query and the Page of client.ts.                   *)
(***************************************************************************)
MaxNav == 3
MaxNavRows == 3
DefaultPageSize == 2

\* A cursor: the sentinels 'start' and 'end', or a server-issued token that
\* marks the rows from..to of the page it came with.
StartCursor == [kind |-> "start", from |-> 1, to |-> 0]
EndCursor(n) == [kind |-> "end", from |-> n + 1, to |-> n]
Token(from, to) == [kind |-> "token", from |-> from, to |-> to]

\* the page field of a request body: { size, offset, first, last, after, before }
NavOptions(size, offset, firstCursor, lastCursor, after, before) ==
  [size |-> size, offset |-> offset, first |-> firstCursor, last |-> lastCursor,
   after |-> after, before |-> before]

\* an optional request field, or the server's default for it
OrDefault(x, d) == IF x /= Undefined THEN x[1] ELSE d

Min(a, b) == IF a < b THEN a ELSE b
Max(a, b) == IF a > b THEN a ELSE b

\* rows lo..hi of the table
Rows(lo, hi) == [i \in 1..(hi - lo + 1) |-> lo + i - 1]

\* queryTable: the server's answer to one request on a table of n rows. A
\* cursor positions the page and takes precedence over offset; more says
\* that rows follow the page in the result order.
queryTable(n, page) ==
  LET size == OrDefault(page.size, DefaultPageSize)
      lo == IF page.after /= Undefined THEN page.after[1].to + 1
            ELSE IF page.before /= Undefined
                 THEN Max(1, (IF page.before[1].kind = "end" THEN n + 1
                              ELSE page.before[1].from) - size)
            ELSE IF page.first /= Undefined THEN 1
            ELSE IF page.last /= Undefined THEN Max(1, n - size + 1)
            ELSE OrDefault(page.offset, 0) + 1
      hi == IF page.before /= Undefined
            THEN (IF page.before[1].kind = "end" THEN n + 1
                  ELSE page.before[1].from) - 1
            ELSE Min(n, lo + size - 1)
  IN  [meta |-> [page |-> [cursor |-> Token(lo, hi), more |-> hi < n]],
       records |-> IF hi < lo THEN <<>> ELSE Rows(lo, hi)]

\* Query: readonly meta = { page: { cursor: 'start', more: true } }; records = []
QueryAsPage == [meta |-> [page |-> [cursor |-> StartCursor, more |-> TRUE]],
                records |-> <<>>]

\* the paginable a call is made on: 0 is the Query itself, i >= 1 the Page
\* that call i returned
Paginable(i) == IF i = 0 THEN QueryAsPage ELSE [meta |-> nav[i].meta, records |-> nav[i].records]

\* Page.nextPage without its cursor
PageNextRestarting(page, size, offset) ==
  NavOptions(size, offset, Undefined, Undefined, Undefined, Undefined)

\* Page.nextPage: { size, offset, after: this.meta.page.cursor }
PageNext(page, size, offset) ==
  NavOptions(size, offset, Undefined, Undefined, Value(page.meta.page.cursor), Undefined)
\* Page.previousPage: { size, offset, before: this.meta.page.cursor }
PagePrevious(page, size, offset) ==
  NavOptions(size, offset, Undefined, Undefined, Undefined, Value(page.meta.page.cursor))
\* Page.firstPage: { size, offset, first: this.meta.page.cursor }
PageFirst(page, size, offset) ==
  NavOptions(size, offset, Value(page.meta.page.cursor), Undefined, Undefined, Undefined)
\* Page.lastPage: { size, offset, last: this.meta.page.cursor }
PageLast(page, size, offset) ==
  NavOptions(size, offset, Undefined, Value(page.meta.page.cursor), Undefined, Undefined)

\* Query.firstPage: { size, offset }
QueryFirst(size, offset) ==
  NavOptions(size, offset, Undefined, Undefined, Undefined, Undefined)
\* Query.nextPage and Query.previousPage: return this.firstPage(size, offset)
QueryNext(size, offset) == QueryFirst(size, offset)
QueryPrevious(size, offset) == QueryFirst(size, offset)
\* Query.lastPage: { size, offset, before: 'end' }
QueryLast(n, size, offset) ==
  NavOptions(size, offset, Undefined, Undefined, Undefined, Value(EndCursor(n)))

NavMethods == {"nextPage", "previousPage", "firstPage", "lastPage"}
NavSizes == {Undefined, Value(1)}
NavOffsets == {Undefined, Value(1)}
NavTargets == 0..(MaxNav - 1)

\* the request the method builds when called on paginable i
NavRequest(i, method, size, offset) ==
  IF i = 0
  THEN CASE method = "nextPage" -> QueryNext(size, offset)
         [] method = "previousPage" -> QueryPrevious(size, offset)
         [] method = "firstPage" -> QueryFirst(size, offset)
         [] method = "lastPage" -> QueryLast(navTable, size, offset)
  ELSE CASE method = "nextPage" -> PageNext(Paginable(i), size, offset)
         [] method = "previousPage" -> PagePrevious(Paginable(i), size, offset)
         [] method = "firstPage" -> PageFirst(Paginable(i), size, offset)
         [] method = "lastPage" -> PageLast(Paginable(i), size, offset)

InitNav ==
  /\ navTable \in 0..MaxNavRows
  /\ nav = <<>>

\* paginable.method(size, offset): getPaginated({ page }) sends the request
\* and returns new Page(this, meta, records)
Navigate(i, method, size, offset) ==
  /\ Len(nav) < MaxNav
  /\ i <= Len(nav)
  /\ LET request == NavRequest(i, method, size, offset)
         response == queryTable(navTable, request)
     IN  nav' = Append(nav, [on |-> i, method |-> method, request |-> request,
                             meta |-> response.meta, records |-> response.records])
  /\ UNCHANGED navTable
  /\ UNCHANGED exceptNav

NavNextPage == \E i \in NavTargets, size \in NavSizes, offset \in NavOffsets :
  Navigate(i, "nextPage", size, offset)
NavPreviousPage == \E i \in NavTargets, size \in NavSizes, offset \in NavOffsets :
  Navigate(i, "previousPage", size, offset)
NavFirstPage == \E i \in NavTargets, size \in NavSizes, offset \in NavOffsets :
  Navigate(i, "firstPage", size, offset)
NavLastPage == \E i \in NavTargets, size \in NavSizes, offset \in NavOffsets :
  Navigate(i, "lastPage", size, offset)

NextNav == NavNextPage \/ NavPreviousPage \/ NavFirstPage \/ NavLastPage

(***************************************************************************)
(* getIterator step by step: the async generator, its consumer and the     *)
(* transport.                                                              *)
(***************************************************************************)
MaxRuns == 2
MaxRequests == 4
MaxPending == 2
MaxAsks == 5

\* the servers of this part: every page carries one record, the last one
\* one or none
ItServers ==
  {sv \in Servers : \A j \in 1..Len(sv) :
     \/ Len(sv[j].records) = 1
     \/ j = Len(sv) /\ Len(sv[j].records) = 0}

\* const [record] = page
Destructure(page) == IF page = <<>> THEN Undefined ELSE page[1]

\* the answer to the k-th request of a run: the server's k-th page
answer(sv, k) == IF k <= Len(sv) THEN sv[k] ELSE EmptyPage

\* the batchSize a caller passes, if any
ItBatchSizes ==
  {Undefined, Value(0), Value(1), Value(2), Value(PAGINATION_MAX_SIZE + 1)}

\* the pagination a caller passes in the options, if any
CallerPaginations == {Undefined, Value(PageOptions(Value(7), Value(3), Undefined))}

\* "forAwait": for await (... of generator), one next() at a time;
\* "manual": a program that calls next() and return() itself
ConsumerKinds == {"forAwait", "manual"}

NoRun == [n |-> 0, method |-> "none", options |-> NoOptions, batchSize |-> Undefined,
          kind |-> "forAwait"]
NoGenerator == [pc |-> "none", batchSize |-> 0, offset |-> 0, end |-> FALSE, more |-> TRUE]
NewConsumer == [asked |-> 0, received |-> 0, pending |-> 0, stopping |-> FALSE,
                stopped |-> FALSE, results |-> <<>>, returned |-> FALSE, error |-> ""]

InitIterator ==
  /\ itServer \in ItServers
  /\ itRun = NoRun
  /\ gen = NoGenerator
  /\ consumer = NewConsumer
  /\ itRequests = <<>>
  /\ itMores = <<>>
  /\ inflight = 0
  /\ itEvents = <<>>

\* no iteration is running: none was started, or the last one is over
Idle ==
  \/ gen.pc = "none"
  \/ /\ gen.pc = "done"
     /\ inflight = 0
     /\ itRun.method = "getAll" => consumer.returned \/ consumer.error # ""

\* a call of getIterator(options): const { batchSize = 1 } = options;
\* let offset = 0; let end = false
StartRun(method, options, batchSize, default, kind) ==
  /\ Idle
  /\ itRun.n < MaxRuns
  /\ itRun' = [n |-> itRun.n + 1, method |-> method, options |-> options,
               batchSize |-> batchSize, kind |-> kind]
  /\ gen' = [pc |-> "start", batchSize |-> Coalesce(batchSize, Value(default))[1],
             offset |-> 0, end |-> FALSE, more |-> TRUE]
  /\ consumer' = NewConsumer
  /\ itRequests' = <<>>
  /\ itMores' = <<>>
  /\ itEvents' = <<>>
  /\ UNCHANGED <<itServer, inflight>>
  /\ UNCHANGED exceptIter

\* query.getIterator({ batchSize, pagination })
StartGetIterator(batchSize, pagination, kind) ==
  StartRun("getIterator", [NoOptions EXCEPT !.pagination = pagination], batchSize, 1, kind)

\* query.getAll({ batchSize, pagination }): const { batchSize =
\* PAGINATION_MAX_SIZE, ...rest } = options; for await (const page of
\* this.getIterator({ ...rest, batchSize }))
StartGetAll(batchSize, pagination) ==
  StartRun("getAll", [NoOptions EXCEPT !.pagination = pagination],
           Value(Coalesce(batchSize, Value(PAGINATION_MAX_SIZE))[1]), 1, "forAwait")

\* for await (const record of query): this.getIterator({ batchSize: 1 })
StartAsyncIterator ==
  StartRun("asyncIterator", NoOptions, Value(1), 1, "forAwait")

\* a generator that a next() resumes wherever it stands
SuspendedOrAwaiting(g) == g.pc \in {"start", "yielded", "awaiting"}
\* the generator is suspended, at its start or at its yield: a next() resumes it
Suspended(g) == g.pc \in {"start", "yielded"}

\* a generator that goes on after its yield without being asked
QueuedOrNot(pending) == TRUE
\* a next() is queued: the generator goes on after its yield
Queued(pending) == pending > 0

\* the generator resumed at its yield: offset += batchSize; end = !meta.page.more
AfterYield(g) ==
  IF g.pc = "start" THEN g
  ELSE [g EXCEPT !.offset = g.offset + g.batchSize,
                 !.end = IteratorEnd([page |-> [more |-> g.more]])]

\* the request of one round: this.getPaginated({ ...options, pagination:
\* { size: batchSize, offset } })
RoundRequest(g) ==
  LET pagination == IteratorRequest(itRun.options, g.batchSize, g.offset).pagination[1]
  IN  [size |-> pagination.size[1], offset |-> pagination.offset[1]]

\* the consumer calls next()
Ask ==
  /\ gen.pc /= "none"
  /\ ~consumer.stopping
  /\ \/ \* the generator runs to its next await, or off its end
        /\ Suspended(gen)
        /\ itRun.kind = "forAwait" => consumer.pending = 0 /\ ~consumer.stopped
        /\ LET g == AfterYield(gen)
           IN  IF g.end
               THEN /\ gen' = [g EXCEPT !.pc = "done"]
                    /\ consumer' = [consumer EXCEPT !.asked = @ + 1]
                    /\ UNCHANGED <<itRequests, inflight, itEvents>>
               ELSE /\ Len(itRequests) < MaxRequests
                    /\ gen' = [g EXCEPT !.pc = "awaiting"]
                    /\ consumer' = [consumer EXCEPT !.asked = @ + 1, !.pending = @ + 1]
                    /\ itRequests' = Append(itRequests, RoundRequest(g))
                    /\ inflight' = inflight + 1
                    /\ itEvents' = Append(itEvents, "request")
     \/ \* the generator is running: the call is queued
        /\ gen.pc = "awaiting" /\ ~Suspended(gen)
        /\ itRun.kind = "manual"
        /\ consumer.pending < MaxPending
        /\ consumer' = [consumer EXCEPT !.asked = @ + 1, !.pending = @ + 1]
        /\ UNCHANGED <<gen, itRequests, inflight, itEvents>>
     \/ \* the generator is over: the call returns done
        /\ gen.pc = "done"
        /\ itRun.kind = "manual"
        /\ consumer.asked < MaxAsks
        /\ consumer' = [consumer EXCEPT !.asked = @ + 1]
        /\ UNCHANGED <<gen, itRequests, inflight, itEvents>>
  /\ UNCHANGED <<itServer, itRun, itMores>>
  /\ UNCHANGED exceptIter

\* the transport call fails and the generator issues the request again
FailAndRetry ==
  /\ Len(itRequests) < MaxRequests
  /\ consumer' = [consumer EXCEPT !.error = "FetcherError"]
  /\ itRequests' = Append(itRequests, itRequests[Len(itRequests)])
  /\ UNCHANGED <<gen, inflight, itMores, itEvents>>

\* the transport call fails: await this.getPaginated(...) throws inside the
\* generator, which is over; the next() that waited rejects with the error
\* and the for await loop of the consumer (of getAll, of the async iterator)
\* throws it
Fail ==
  /\ gen' = [gen EXCEPT !.pc = "done"]
  /\ consumer' = [consumer EXCEPT !.pending = 0, !.stopping = FALSE,
                                  !.error = "FetcherError"]
  /\ inflight' = inflight - 1
  /\ UNCHANGED <<itRequests, itMores, itEvents>>

\* the transport answers the request: the generator yields the records to
\* the oldest next(); getAll pushes them onto results, the async iterator
\* yields the first element of the batch. With a return() queued the
\* generator is closed at its yield; with a next() queued it goes on to its
\* next round.
Respond(outcome) ==
  /\ gen.pc = "awaiting"
  /\ inflight > 0
  /\ IF outcome = "fails" THEN Fail ELSE
     LET page == answer(itServer, Len(itMores) + 1)
         yielded == [gen EXCEPT !.pc = "yielded", !.more = page.meta.page.more]
         served == [consumer EXCEPT !.received = @ + 1, !.pending = @ - 1,
                      !.results =
                        CASE itRun.method = "getAll" -> @ \o page.records
                          [] itRun.method = "asyncIterator" ->
                               Append(@, Destructure(page.records))
                          [] OTHER -> @]
         g == AfterYield(yielded)
     IN  /\ itMores' = Append(itMores, page.meta.page.more)
         /\ IF consumer.stopping
            THEN /\ gen' = [yielded EXCEPT !.pc = "done"]
                 /\ consumer' = [served EXCEPT !.pending = 0, !.stopping = FALSE,
                                               !.stopped = TRUE]
                 /\ inflight' = inflight - 1
                 /\ itEvents' = Append(itEvents, "yield")
                 /\ UNCHANGED itRequests
            ELSE IF Queued(served.pending)
            THEN IF g.end
                 THEN /\ gen' = [g EXCEPT !.pc = "done"]
                      /\ consumer' = [served EXCEPT !.pending = 0]
                      /\ inflight' = inflight - 1
                      /\ itEvents' = Append(itEvents, "yield")
                      /\ UNCHANGED itRequests
                 ELSE /\ Len(itRequests) < MaxRequests
                      /\ gen' = [g EXCEPT !.pc = "awaiting"]
                      /\ consumer' = served
                      /\ itRequests' = Append(itRequests, RoundRequest(g))
                      /\ inflight' = inflight
                      /\ itEvents' = itEvents \o <<"yield", "request">>
            ELSE /\ gen' = yielded
                 /\ consumer' = served
                 /\ inflight' = inflight - 1
                 /\ itEvents' = Append(itEvents, "yield")
                 /\ UNCHANGED itRequests
  /\ UNCHANGED <<itServer, itRun>>
  /\ UNCHANGED exceptIter

\* the consumer stops: break in a for await loop, or return() called by
\* hand. A generator that awaits its response is closed at its next yield.
Stop ==
  /\ itRun.method \in {"getIterator", "asyncIterator"}
  /\ ~consumer.stopping /\ ~consumer.stopped
  /\ \/ /\ gen.pc = "yielded"
        /\ gen' = [gen EXCEPT !.pc = "done"]
        /\ consumer' = [consumer EXCEPT !.stopped = TRUE]
     \/ /\ gen.pc = "awaiting"
        /\ itRun.kind = "manual"
        /\ consumer' = [consumer EXCEPT !.stopping = TRUE]
        /\ UNCHANGED gen
  /\ UNCHANGED <<itServer, itRun, itRequests, itMores, inflight, itEvents>>
  /\ UNCHANGED exceptIter

\* getAll: the loop is over, return results
Return ==
  /\ itRun.method = "getAll"
  /\ gen.pc = "done"
  /\ consumer.error = ""
  /\ ~consumer.returned
  /\ consumer' = [consumer EXCEPT !.returned = TRUE]
  /\ UNCHANGED <<itServer, itRun, gen, itRequests, itMores, inflight, itEvents>>
  /\ UNCHANGED exceptIter

Responds == \E outcome \in Outcomes : Respond(outcome)

GetIterator ==
  \E batchSize \in ItBatchSizes, pagination \in CallerPaginations, kind \in ConsumerKinds :
    StartGetIterator(batchSize, pagination, kind)

GetAllStepwise ==
  \E batchSize \in ItBatchSizes, pagination \in CallerPaginations :
    StartGetAll(batchSize, pagination)

NextIterator ==
  \/ GetIterator
  \/ GetAllStepwise
  \/ StartAsyncIterator
  \/ Ask
  \/ Responds
  \/ Stop
  \/ Return

(***************************************************************************)
(* Construction of a client: BaseClient's constructor, and the constructor *)
(* and #parseOptions of the class of buildClient.                          *)
(***************************************************************************)
MaxUses == 2

\* what options.databaseURL and options.apiKey may be
OptionValues == {"undefined", "", "set"}
\* options.branch: absent, a literal or a resolver function
BranchOptions == {"undefined", "main", "resolver"}
\* what getDatabaseURL() and getAPIKey() find in the environment
EnvValues == {"undefined", "set"}

NewClient(client, databaseURL, apiKey, branchOption, envURL, envKey) ==
  [impl |-> client,
   options |-> [databaseURL |-> databaseURL, apiKey |-> apiKey, branch |-> branchOption],
   env |-> [databaseURL |-> envURL, apiKey |-> envKey],
   pc |-> "new", error |-> "", db |-> FALSE, calls |-> 0]

\* a || b
Or(a, b) == IF Truthy(a) THEN a ELSE b

\* a #parseOptions without its check
parseOptionsUnchecked(options, env) ==
  [threw |-> FALSE, error |-> "",
   databaseURL |-> Or(options.databaseURL, env.databaseURL),
   apiKey |-> Or(options.apiKey, env.apiKey)]

\* #parseOptions: databaseURL = options?.databaseURL || getDatabaseURL();
\* apiKey = options?.apiKey || getAPIKey();
\* if (!databaseURL || !apiKey) throw new Error(...)
parseOptions(options, env) ==
  LET databaseURL == Or(options.databaseURL, env.databaseURL)
      apiKey == Or(options.apiKey, env.apiKey)
  IN  IF ~Truthy(databaseURL) \/ ~Truthy(apiKey)
      THEN [threw |-> TRUE, error |-> "Options databaseURL and apiKey are required",
            databaseURL |-> databaseURL, apiKey |-> apiKey]
      ELSE [threw |-> FALSE, error |-> "", databaseURL |-> databaseURL, apiKey |-> apiKey]

InitConfig ==
  boot \in {NewClient(c, u, k, b, eu, ek) :
              c \in {"BaseClient", "buildClient"}, u \in OptionValues, k \in OptionValues,
              b \in BranchOptions, eu \in EnvValues, ek \in EnvValues}

\* new BaseClient(options, links): throws when an option is missing, else
\* keeps options and links. new (buildClient())(options, links):
\* #parseOptions first, then the db and search namespaces are built.
Construct ==
  /\ boot.pc = "new"
  /\ boot' =
       IF boot.impl = "BaseClient"
       THEN IF \/ ~Truthy(boot.options.databaseURL)
               \/ ~Truthy(boot.options.apiKey)
               \/ ~Truthy(boot.options.branch)
            THEN [boot EXCEPT !.pc = "threw",
                    !.error = "Options databaseURL, apiKey and branch are required"]
            ELSE [boot EXCEPT !.pc = "constructed"]
       ELSE LET safeOptions == parseOptions(boot.options, boot.env)
            IN  IF safeOptions.threw
                THEN [boot EXCEPT !.pc = "threw", !.error = safeOptions.error]
                ELSE [boot EXCEPT !.pc = "constructed", !.db = TRUE]
  /\ UNCHANGED exceptConfig

\* an operation on the constructed client: the branch is resolved and the
\* transport called
Operate ==
  /\ boot.pc = "constructed"
  /\ boot.calls < MaxUses
  /\ boot' = [boot EXCEPT !.calls = @ + 1]
  /\ UNCHANGED exceptConfig

NextConfig == Construct \/ Operate

(***************************************************************************)
(* Execution of the Query of client.ts.                                    *)
(***************************************************************************)
\* compactObject(filter): the keys whose value is not undefined, in order
compactObject(lists) ==
  [keys |-> SelectSeq(CombinatorKeys, LAMBDA k : lists[k] # Undefined), val |-> lists]

\* JSON.stringify of $sort, an object { [column]: direction }
StringifySortObject(s) ==
  "{" \o Join([i \in 1..Len(s) |->
                 "\"" \o s[i].column \o "\":\"" \o s[i].direction \o "\""]) \o "}"

\* the page a caller of getPaginated passes, if any
LegacyPages == {Undefined, Value(PageOptions(Value(1), Undefined, Undefined))}

\* the rows of a response
LegacyRows == {<<RowWith(JsUndefined)>>}

\* getPaginated(options): queryTable with body { filter: compactObject(filter),
\* sort: this.$sort, page: options?.page }; the records are the rows, each
\* through client.initObject
LegacyGetPaginated(q, page, rows) ==
  /\ CanCall
  /\ IsLegacyQuery(q)
  /\ last' = [LegacyCallOn("getPaginated", q) EXCEPT
                !.request = Value([table |-> legacy[q].table,
                                   filter |-> compactObject(legacy[q].lists),
                                   sort |-> legacy[q].sort,
                                   sortText |-> IF legacy[q].sort = Undefined THEN ""
                                                ELSE StringifySortObject(legacy[q].sort[1]),
                                   page |-> page]),
                !.records = [i \in 1..Len(rows) |->
                               initObject(links, legacy[q].table, rows[i])]]
  /\ ncalls' = ncalls + 1
  /\ UNCHANGED <<objs, qs, legacy>>
  /\ UNCHANGED <<branchVars, pageVars, otherVars>>

LegacyExecute ==
  \E q \in QueryIds, page \in LegacyPages, rows \in LegacyRows :
    LegacyGetPaginated(q, page, rows)

(***************************************************************************)
(* The specifications: one part of the client runs, the others stay as     *)
(* constructed.                                                            *)
(***************************************************************************)

NoQueryActivity ==
  /\ objs = <<>>
  /\ qs = <<>>
  /\ legacy = <<>>
  /\ ncalls = 0
  /\ last = NoCall

NoBranchActivity ==
  /\ impl = "BaseClient"
  /\ strategies = <<LiteralStrategy("main")>>
  /\ source = [r \in Resolvers |-> "undefined"]
  /\ branch = "undefined"
  /\ ops = [p \in Ops |-> IdleOp]
  /\ invoked = [i \in 1..MaxStrategies |-> 0]
  /\ writes = 0
  /\ returned = {}
  /\ requests = <<>>

NoPageActivity ==
  /\ server = <<PageOf(1, 0, FALSE)>>
  /\ batch = Undefined
  /\ iter = IdleIterator
  /\ results = <<>>
  /\ pageRequests = <<>>

NoRecordActivity ==
  /\ links = [users |-> <<>>]
  /\ row = [table |-> "users", object |-> RowWith(JsUndefined)]
  /\ hydrated = JsUndefined
  /\ createOp = IdleCreate(Entries(<<<<"name", JsString("Ann")>>>>))
  /\ edit = NoEdit
  /\ recordCalls = <<>>

NoNavActivity ==
  /\ navTable = 0
  /\ nav = <<>>

NoIteratorActivity ==
  /\ itServer = <<PageOf(1, 1, FALSE)>>
  /\ itRun = NoRun
  /\ gen = NoGenerator
  /\ consumer = NewConsumer
  /\ itRequests = <<>>
  /\ itMores = <<>>
  /\ inflight = 0
  /\ itEvents = <<>>

NoConfigActivity ==
  boot = [NewClient("BaseClient", "set", "set", "main", "undefined", "undefined")
            EXCEPT !.pc = "constructed"]

NoOtherActivity ==
  /\ NoConfigActivity
  /\ NoRecordActivity
  /\ NoNavActivity
  /\ NoIteratorActivity

\* a program builds its queries with the Query of schema/query.ts or with
\* the Query of client.ts
InitBuilders ==
  /\ InitQuery \/ InitLegacy
  /\ NoBranchActivity
  /\ NoPageActivity
  /\ NoOtherActivity

NextBuilders == NextQuery \/ NextLegacy \/ LegacyExecute

SpecQuery == InitBuilders /\ [][NextBuilders]_vars

InitClient ==
  /\ InitBranch
  /\ NoQueryActivity
  /\ NoPageActivity
  /\ NoOtherActivity

SpecBranch == InitClient /\ [][NextBranch]_vars

InitServer ==
  /\ InitPages
  /\ NoQueryActivity
  /\ NoBranchActivity
  /\ NoOtherActivity

SpecPages == InitServer /\ [][NextPages]_vars

InitHydrator ==
  /\ NoConfigActivity
  /\ InitRecords
  /\ NoQueryActivity
  /\ NoBranchActivity
  /\ NoPageActivity
  /\ NoNavActivity
  /\ NoIteratorActivity

SpecRecords == InitHydrator /\ [][NextRecords]_vars

InitNavigator ==
  /\ NoConfigActivity
  /\ InitNav
  /\ NoQueryActivity
  /\ NoBranchActivity
  /\ NoPageActivity
  /\ NoRecordActivity
  /\ NoIteratorActivity

SpecNav == InitNavigator /\ [][NextNav]_vars

InitConsumer ==
  /\ NoConfigActivity
  /\ InitIterator
  /\ NoQueryActivity
  /\ NoBranchActivity
  /\ NoPageActivity
  /\ NoRecordActivity
  /\ NoNavActivity

SpecIterator == InitConsumer /\ [][NextIterator]_vars

\* the transport answers every request, a consumer that has not stopped goes
\* on asking, and getAll returns once its loop is over
SpecIteratorFair ==
  /\ InitConsumer
  /\ [][NextIterator]_vars
  /\ WF_vars(Responds)
  /\ WF_vars(Ask)
  /\ WF_vars(Return)

\* A program that creates a record, uses a hydrated record and iterates a
\* query, over a transport whose calls can fail.
InitTransport ==
  /\ NoConfigActivity
  /\ InitRecords
  /\ links = [users |-> <<<<"author", "authors">>>>, authors |-> <<<<"team", "teams">>>>]
  /\ row = [table |-> "users",
            object |-> RowWith(JsObject(Entries(<<<<"id", JsString("a1")>>,
                                                  <<"name", JsString("Ann")>>>>)))]
  /\ createOp.object = Entries(<<<<"name", JsString("Ann")>>>>)
  /\ InitIterator
  /\ itServer = <<PageOf(1, 1, TRUE), PageOf(2, 1, FALSE)>>
  /\ NoQueryActivity
  /\ NoBranchActivity
  /\ NoPageActivity
  /\ NoNavActivity

NextTransport ==
  \/ Hydrate
  \/ \E target \in {"record", "author"}, m \in {"read", "update", "delete"},
        ans \in TransportAnswers : InvokeMethod(target, m, ans)
  \/ \E outcome \in Outcomes : CreateInsert(outcome)
  \/ \E ans \in GetRecordAnswers : CreateRead(ans)
  \/ CreateReturn
  \/ NextIterator

SpecTransport == InitTransport /\ [][NextTransport]_vars

InitConstructor ==
  /\ InitConfig
  /\ NoQueryActivity
  /\ NoBranchActivity
  /\ NoPageActivity
  /\ NoRecordActivity
  /\ NoNavActivity
  /\ NoIteratorActivity

SpecConfig == InitConstructor /\ [][NextConfig]_vars

(***************************************************************************)
(* Properties of the builder.                                              *)
(***************************************************************************)
AsList(x) == IF x = Undefined THEN <<>> ELSE x[1]

CombinatorCall == last.op \in Keys

\* the queries are those of client.ts
LegacyBuilder == legacy # <<>>

\* the options of the query the last builder call returned
Returned == Options(objs, qs[last.res].data)

SameButLists(a, b) ==
  /\ a.sort = b.sort
  /\ a.columns = b.columns
  /\ a.pagination = b.pagination
  /\ a.cache = b.cache

\* the filter objects of the subqueries of the last combinator call, in
\* argument order
SubqueryTrees == [i \in 1..Len(last.subs) |-> Ref(qs[last.subs[i]].data.filter)]

\* C1: Q.filter(C), in both of its forms, returns a query whose $all list is
\* Q's $all list followed by the constraints of C in order, and whose $any,
\* $not, $none, sort, columns, pagination and cache TTL are those of Q.
C1_FilterAppends ==
  last.op = "filter" =>
    IF LegacyBuilder
    THEN /\ legacy[last.res].lists["$all"]
              = Value(AsList(last.before.lists["$all"]) \o last.cons)
         /\ \A k \in Keys \ {"$all"} :
              legacy[last.res].lists[k] = last.before.lists[k]
         /\ legacy[last.res].sort = last.before.sort
    ELSE /\ Returned.lists["$all"]
              = Value(AsList(last.before.lists["$all"]) \o last.cons)
         /\ \A k \in Keys \ {"$all"} : Returned.lists[k] = last.before.lists[k]
         /\ SameButLists(Returned, last.before)

\* a filter(constraintsObject) call with two columns on a query that already
\* had an $all list and an $any list
C1_Witness ==
  /\ ~LegacyBuilder
  /\ last.op = "filter"
  /\ last.nargs = 1
  /\ Len(last.cons) = 2
  /\ AsList(last.before.lists["$all"]) # <<>>
  /\ last.before.lists["$any"] # Undefined

\* C2 as stated: Q.k(a, b) returns a query whose whole filter is {$k: [a's
\* filter, b's filter]}: no other combinator list of Q survives.
C2_CombinatorDiscards ==
  CombinatorCall =>
    IF LegacyBuilder
    THEN /\ legacy[last.res].lists[last.op] = Value(LegacySubqueries(last.subs))
         /\ \A k \in Keys \ {last.op} : legacy[last.res].lists[k] = Undefined
    ELSE /\ Returned.lists[last.op] = Value(SubqueryTrees)
         /\ \A k \in Keys \ {last.op} : Returned.lists[k] = Undefined

\* C2 amended: Q.k(a, b) returns a query whose other three combinator
\* lists, sort, columns, pagination and cache TTL are those of Q, unchanged:
\* nothing of Q but its own $k list is given up.  With the Query of
\* schema/query.ts the $k list is exactly [a's filter, b's filter] (Q's own
\* $k list is replaced); with the Query of client.ts it is Q's own $k list
\* followed by a and b (appended).
C2_CombinatorKeepsOtherLists ==
  CombinatorCall =>
    IF LegacyBuilder
    THEN /\ legacy[last.res].lists[last.op]
              = Value(AsList(last.before.lists[last.op]) \o LegacySubqueries(last.subs))
         /\ \A k \in Keys \ {last.op} :
              legacy[last.res].lists[k] = last.before.lists[k]
         /\ legacy[last.res].sort = last.before.sort
    ELSE /\ Returned.lists[last.op] = Value(SubqueryTrees)
         /\ \A k \in Keys \ {last.op} : Returned.lists[k] = last.before.lists[k]
         /\ SameButLists(Returned, last.before)

\* any(a, b) on a query that had an $any list of its own and an $all list
C2_Witness ==
  /\ ~LegacyBuilder
  /\ last.op = "$any"
  /\ Len(last.subs) = 2
  /\ last.before.lists["$any"] # Undefined
  /\ AsList(last.before.lists["$all"]) # <<>>

\* one step leaves the queries as they were: every query keeps its options,
\* its resolved filter tree and its key(), and a builder call returns a query
\* object that did not exist before
C3_Step ==
  /\ Len(qs') >= Len(qs)
  /\ \A i \in 1..Len(qs) :
       /\ qs'[i] = qs[i]
       /\ Resolved(objs', qs'[i].data) = Resolved(objs, qs[i].data)
  /\ Len(legacy') >= Len(legacy)
  /\ \A i \in 1..Len(legacy) : legacy'[i] = legacy[i]
  /\ last'.res # 0 =>
       /\ last'.res \notin 1..(Len(qs) + Len(legacy))
       /\ last'.res \in 1..(Len(qs') + Len(legacy'))

\* C3: query values are immutable: every step of the program, whatever the
\* builder or execution call, leaves every existing query as it was.
C3_QueriesImmutable == [][C3_Step]_vars

\* C4: two queries whose resolved columns, filter, sort and pagination are
\* equal have the same key().
C4_FingerprintEquivalence ==
  \A i, j \in 1..Len(qs) :
    StringifyOptions(objs, qs[i].data, TRUE) = StringifyOptions(objs, qs[j].data, TRUE)
      => key(objs, qs[i].data) = key(objs, qs[j].data)

\* C5: two queries on different tables with the same resolved options have
\* different key() values.
C5_KeyDependsOnTable ==
  \A i, j \in 1..Len(qs) :
    /\ qs[i].table # qs[j].table
    /\ StringifyOptions(objs, qs[i].data, TRUE) = StringifyOptions(objs, qs[j].data, TRUE)
    => key(objs, qs[i].data) # key(objs, qs[j].data)

(***************************************************************************)
(* Properties of getAll.                                                   *)
(***************************************************************************)
\* the first page of the server that reports more = false
LastPage(sv) ==
  CHOOSE n \in 1..Len(sv) :
    ~sv[n].meta.page.more /\ \A j \in 1..(n - 1) : sv[j].meta.page.more

RECURSIVE RecordsUpTo(_, _)
RecordsUpTo(sv, n) ==
  IF n = 0 THEN <<>> ELSE RecordsUpTo(sv, n - 1) \o sv[n].records

\* C6: if the server's pages report more = true, ..., true, false with the
\* first false on page n, getAll never issues more than n page requests, and
\* when it returns it has issued exactly n, for the pages 1..n in order, and
\* its result is the concatenation of the records of pages 1..n.
C6_GetAllStopsAtLastPage ==
  LET n == LastPage(server) IN
  /\ Len(pageRequests) <= n
  /\ \A k \in 1..Len(pageRequests) :
       pageRequests[k].offset = (k - 1) * pageRequests[k].size
  /\ iter.pc = "returned" =>
       /\ Len(pageRequests) = n
       /\ results = RecordsUpTo(server, n)

\* getAll has returned from a server with more = [true, true, false] whose
\* three pages all carry records
C6_Witness ==
  /\ iter.pc = "returned"
  /\ Len(server) = 3
  /\ LastPage(server) = 3
  /\ \A j \in 1..3 : server[j].records # <<>>
  /\ Len(pageRequests) = 3

(***************************************************************************)
(* Properties of branch resolution.                                        *)
(***************************************************************************)
\* empty: undefined, null or ""
IsEmpty(v) == v \in {"undefined", "null", ""}

\* the resolution of operation p has evaluated the strategy list and is over
Evaluated(p) ==
  /\ ops[p].obs # <<>>
  /\ ops[p].pc \in {"outer", "resolved", "failed"}

\* C7: a resolution that evaluates the strategy list reads the elements in
\* list order (a literal as itself, a resolver by its result), returns the
\* first non-empty value it meets, and, when every element is empty, returns
\* no value: the operation fails with the resolution error.
C7_FirstNonEmptyWins ==
  \A p \in Ops :
    /\ ops[p].pc = "resolved" => ~IsEmpty(ops[p].value)
    /\ Evaluated(p) =>
         LET obs == ops[p].obs
             n == Len(obs)
         IN /\ n <= Len(strategies)
            /\ \A j \in 1..n :
                 ~isBranchStrategyBuilder(strategies[j]) => obs[j] = strategies[j].value
            /\ \A j \in 1..(n - 1) : IsEmpty(obs[j])
            /\ IF IsEmpty(obs[n])
               THEN /\ n = Len(strategies)
                    /\ ops[p].value = "undefined"
                    /\ ops[p].pc \in {"outer", "failed"}
               ELSE /\ ops[p].value = obs[n]
                    /\ ops[p].pc \in {"outer", "resolved"}

\* [undefined, "", resolver returning "main"] has yielded "main" for one
\* operation, and another operation, for which the resolver returned nothing,
\* has failed
C7_Witness ==
  /\ strategies = <<LiteralStrategy("undefined"), LiteralStrategy(""),
                    ResolverStrategy("r1")>>
  /\ \E p \in Ops :
       /\ ops[p].pc = "resolved"
       /\ ops[p].obs = <<"undefined", "", "main">>
       /\ ops[p].value = "main"
  /\ \E p \in Ops :
       /\ ops[p].pc = "failed"
       /\ ops[p].obs = <<"undefined", "", "undefined">>

\* C8: a resolution that starts after resolutions have returned the branch b
\* returns b, and evaluates no element of the strategy list.
C8_LaterResolutionsReturnMemo ==
  \A p \in Ops :
    ops[p].pc = "resolved" =>
      \A b \in ops[p].known : ops[p].value = b /\ ops[p].obs = <<>>

\* C9: under every interleaving of the operations started on a fresh client,
\* each resolver of the list is invoked at most once, the memoized branch is
\* written at most once, and all requests go to the same branch.
C9_ResolvedAtMostOnce ==
  /\ \A i \in 1..MaxStrategies : invoked[i] <= 1
  /\ writes <= 1
  /\ \A i, j \in 1..Len(requests) : requests[i].branch = requests[j].branch

\* C10: every request goes to a non-empty branch, and an operation whose
\* branch resolution was exhausted has failed without a request.
C10_NoRequestWithoutBranch ==
  /\ \A i \in 1..Len(requests) : ~IsEmpty(requests[i].branch)
  /\ \A p \in Ops :
       ops[p].pc = "failed" =>
         /\ IsEmpty(ops[p].value)
         /\ \A i \in 1..Len(requests) : requests[i].op # p

\* one operation has failed on an exhausted list while another has made its
\* request
C10_Witness ==
  /\ \E p \in Ops : ops[p].pc = "failed" /\ Len(ops[p].obs) = Len(strategies)
  /\ requests # <<>>


(***************************************************************************)
(* Properties of the records.                                              *)
(***************************************************************************)
\* the hydrated row had a link column whose raw value carries an id and no
\* other field, and the link map names the column
OnlyIdLink ==
  /\ hydrated.t = "object"
  /\ \E i \in 1..Len(TableLinks(links, row.table)) :
        TableLinks(links, row.table)[i][1] = "author"
  /\ JsGet(row.object.o, "author") = OnlyId

\* C11: a link column whose raw value has an id and no other field is
\* hydrated to a LinkRef: the column's id is the raw id, its get is a lazy
\* accessor that reads that id on the linked table, it has no other column
\* and it is not a full record with read, update and delete.
C11_OnlyIdBecomesLinkRef ==
  OnlyIdLink =>
    LET author == JsGet(hydrated.o, "author")
    IN  /\ author.t = "object"
        /\ JsGet(author.o, "id") = JsString("a1")
        /\ JsGet(author.o, "get") = JsReader("authors", JsString("a1"))
        /\ JsGet(author.o, "name") = JsUndefined
        /\ DOMAIN author.o.hidden = {}

\* C12: when the read that follows the insert finds nothing, create fails
\* with 'The server failed to save the record' and returns no record; when
\* it finds the row, create returns the record of that read.
C12_CreateFailsWhenNothingSaved ==
  /\ (createOp.answer = "nothing" /\ createOp.pc \in {"returned", "threw"}) =>
       /\ createOp.pc = "threw"
       /\ createOp.error = "The server failed to save the record"
       /\ createOp.result = JsUndefined
  /\ (createOp.answer = "row" /\ createOp.pc \in {"returned", "threw"}) =>
       /\ createOp.pc = "returned"
       /\ createOp.result = createOp.finalObject


(***************************************************************************)
(* Properties of page navigation.                                          *)
(***************************************************************************)
\* call i was made on a page that had reported more = false
OnTerminalPage(i) == ~Paginable(nav[i].on).meta.page.more

\* C13: nextPage on a page that reported more = false returns an empty
\* terminal page (no records, more = false), never the first page again, and
\* so does nextPage on that page in turn.
C13_NextPageAfterEndIsEmpty ==
  \A i \in 1..Len(nav) :
    (nav[i].method = "nextPage" /\ OnTerminalPage(i)) =>
      /\ nav[i].records = <<>>
      /\ ~nav[i].meta.page.more

\* nextPage was called on a terminal page that held rows, and again on the
\* empty page it returned
C13_Witness ==
  \E i, j \in 1..Len(nav) :
    /\ nav[i].method = "nextPage" /\ OnTerminalPage(i)
    /\ nav[i].on >= 1 /\ nav[nav[i].on].records /= <<>>
    /\ nav[j].method = "nextPage" /\ nav[j].on = i

\* C14: every nextPage request has after = the cursor of the paginable it
\* was called on and every previousPage request has before = that cursor;
\* neither goes out without a cursor, and neither carries 'start'.
C14_NavigationThreadsCursor ==
  \A i \in 1..Len(nav) :
    LET cursor == Paginable(nav[i].on).meta.page.cursor
    IN  /\ nav[i].method = "nextPage" =>
             nav[i].request.after = Value(cursor) /\ cursor.kind /= "start"
        /\ nav[i].method = "previousPage" =>
             nav[i].request.before = Value(cursor) /\ cursor.kind /= "start"

\* C15: no request carries a cursor field (first, last, after, before)
\* together with an offset field (size, offset).
C15_ModesExclusive ==
  \A i \in 1..Len(nav) :
    ~ /\ \E f \in {"first", "last", "after", "before"} : nav[i].request[f] /= Undefined
      /\ \E f \in {"size", "offset"} : nav[i].request[f] /= Undefined


(***************************************************************************)
(* Properties of the iteration.                                            *)
(***************************************************************************)
\* C16: every page request of a getAll has size <= PAGINATION_MAX_SIZE,
\* whatever batchSize the caller passes.
C16_GetAllSizeWithinCeiling ==
  itRun.method = "getAll" =>
    \A k \in 1..Len(itRequests) : itRequests[k].size <= PAGINATION_MAX_SIZE

\* C17: getIterator never has two requests in flight, and its requests and
\* yields alternate strictly, starting with a request.
C17_OneRequestAtATime ==
  /\ inflight <= 1
  /\ \A i \in 1..Len(itEvents) :
       itEvents[i] = IF i % 2 = 1 THEN "request" ELSE "yield"

\* a program that calls next() itself has a second call queued while the
\* second request is in flight
C17_Witness ==
  /\ itRun.kind = "manual"
  /\ Len(itEvents) >= 3
  /\ consumer.pending = 2
  /\ inflight = 1

C19_OffsetsAdvance ==
  itRun.method = "getIterator" =>
    \A k \in 1..Len(itRequests) :
      /\ itRequests[k].size = Coalesce(itRun.batchSize, Value(1))[1]
      /\ itRequests[k].offset = (k - 1) * Coalesce(itRun.batchSize, Value(1))[1]
      /\ \A j \in 1..(k - 1) : itRequests[j].offset < itRequests[k].offset

Running == gen.pc \in {"start", "awaiting", "yielded"}
Finished ==
  /\ gen.pc = "done"
  /\ itRun.method = "getAll" => consumer.returned \/ consumer.error # ""

\* C20: when the transport answers every request and a page reports
\* more = false, a getIterator that is consumed completes and a getAll
\* returns; the iteration ends at the first page with more = false, and a
\* further request is issued only after a page that reported more = true.
C20_IterationTerminates ==
  /\ [](\A k \in 2..Len(itRequests) : k - 1 <= Len(itMores) /\ itMores[k - 1])
  /\ []((gen.pc = "done" /\ ~consumer.stopped /\ consumer.error = "") =>
          /\ Len(itMores) = Len(itRequests)
          /\ Len(itMores) >= 1
          /\ ~itMores[Len(itMores)]
          /\ \A k \in 1..(Len(itMores) - 1) : itMores[k])
  /\ (Running ~> Finished)

\* a getAll returned after three requests
C20_Witness ==
  /\ itRun.method = "getAll"
  /\ consumer.returned
  /\ itMores = <<TRUE, TRUE, FALSE>>
  /\ Len(consumer.results) = 3

(***************************************************************************)
(* Properties of execution.                                                *)
(***************************************************************************)
\* C30: an execution call leaves the filter object of the options the
\* caller passed with exactly the keys and values it had before the call.
C30_CallerOptionsUntouched ==
  (last.request # Undefined /\ last.given # Undefined) => last.left = last.given

\* C21: getFirst sends one request whose pagination is exactly { size: 1 },
\* whatever pagination the caller passed, with the query's filter and sort
\* when the caller passed none of its own, and returns the first record of
\* the response, or null when the response has no records.
C21_GetFirst ==
  last.op = "getFirst" =>
    /\ last.request # Undefined
    /\ last.request[1].options.pagination =
         Value(PageOptions(Value(1), Undefined, Undefined))
    /\ last.request[1].table = qs[last.src].table
    /\ last.request[1].options.sort = last.before.sort
    /\ last.given = Undefined => last.request[1].options.lists = last.before.lists
    /\ last.result = IF last.response = <<>> THEN <<Null>> ELSE <<last.response[1]>>

\* getFirst was called on a filtered and sorted query and found nothing
C21_Witness ==
  /\ last.op = "getFirst"
  /\ last.given = Undefined
  /\ last.before.sort # Undefined
  /\ AsList(last.before.lists["$all"]) # <<>>
  /\ last.response = <<>>
  /\ last.result = <<Null>>

\* the last call was getPaginated, without options of the caller, on the
\* query base.filter("age", gt(30)).sort("name", "asc") of table users
FilteredSortedQuery ==
  /\ last.op = "getPaginated"
  /\ last.given = Undefined
  /\ last.before.lists = [NoValues EXCEPT !["$all"] = Value(<<ConAge>>)]
  /\ last.before.sort = Value(<<[column |-> "name", direction |-> "asc"]>>)
  /\ last.request # Undefined
  /\ last.request[1].table = "users"

\* C22: that call sends a request for table users whose filter is
\* { $all: [{ age: { $gt: 30 } }] } with no other combinator, whose sort is
\* the list [{ column: "name", direction: "asc" }] and whose page is
\* undefined, and every record it returns has callable read, update, delete.
C22_RequestBody ==
  FilteredSortedQuery =>
    IF LegacyBuilder
    THEN /\ last.request[1].filter.keys = <<"$all">>
         /\ last.request[1].filter.val["$all"] = Value(<<ConAge>>)
         /\ last.request[1].sortText = "[{\"column\":\"name\",\"direction\":\"asc\"}]"
         /\ last.request[1].page = Undefined
         /\ \A i \in 1..Len(last.records) :
              DOMAIN last.records[i].hidden = {"read", "update", "delete"}
    ELSE /\ last.request[1].options.lists = last.before.lists
         /\ StringifySort(last.request[1].options.sort[1])
              = "[{\"column\":\"name\",\"direction\":\"asc\"}]"
         /\ last.request[1].options.pagination = Undefined


\* value is an object that has its own id key, a non-empty id and at least
\* one more field
Embedded(value) ==
  /\ value.t = "object"
  /\ "id" \in DOMAIN value.o.val
  /\ JsTruthy(value.o.val["id"])
  /\ Len(value.o.keys) >= 2

\* record is a frozen object with the keys of value, whose read, update and
\* delete are bound to table and value's id
RecordOf(record, table, value) ==
  /\ record.t = "object"
  /\ record.o.keys = value.o.keys
  /\ record.o.frozen
  /\ DOMAIN record.o.hidden = {"read", "update", "delete"}
  /\ \A m \in DOMAIN record.o.hidden : record.o.hidden[m] = <<table, value.o.val["id"]>>

\* field is a link column of table in the client's link map
IsLink(table, field) ==
  /\ table \in DOMAIN links
  /\ \E i \in 1..Len(links[table]) : links[table][i][1] = field

\* C23: in a hydrated row of table users that no program has written to
\* since, every field that is not a link column equals the raw field; a link column author whose raw value holds
\* an id and more fields is a record of table authors with the raw value's
\* fields, whose own link column team, when its raw value holds an id and
\* more fields, is in turn a record of table teams with the embedded fields,
\* and whose other fields equal the raw ones.
C23_EmbeddedLinkIsNestedRecord ==
  (hydrated.t = "object" /\ edit.attempts = 0) =>
    LET raw == row.object.o
    IN  /\ \A k \in DOMAIN raw.val :
             ~IsLink("users", k) => hydrated.o.val[k] = raw.val[k]
        /\ (IsLink("users", "author") /\ Embedded(JsGet(raw, "author"))) =>
             LET value == raw.val["author"]
                 author == hydrated.o.val["author"]
             IN  /\ RecordOf(author, "authors", value)
                 /\ \A k \in DOMAIN value.o.val :
                      IF IsLink("authors", k) /\ Embedded(value.o.val[k])
                      THEN /\ RecordOf(author.o.val[k], "teams", value.o.val[k])
                           /\ author.o.val[k].o.val = value.o.val[k].o.val
                      ELSE IsLink("authors", k) \/ author.o.val[k] = value.o.val[k]

\* a row whose author holds an id and a team that holds an id and a name
\* has been hydrated
C23_Witness ==
  /\ hydrated.t = "object"
  /\ IsLink("users", "author")
  /\ Embedded(JsGet(row.object.o, "author"))
  /\ Embedded(JsGet(JsGet(row.object.o, "author").o, "team"))
  /\ JsGet(hydrated.o, "author").o.val["team"].o.frozen


\* the raw value the target of the last use was hydrated from, and its table
RawOf(target) == IF target = "record" THEN row.object ELSE JsGet(row.object.o, target)
TableOf(target) == IF target = "record" THEN row.table ELSE "authors"

\* C24: a method invoked on the record hydrated from a row of table T, or on
\* the record of its embedded link author, makes the transport call of T's
\* (the link's target table's) repository method with the id of that record
\* (read: getRecord, update: insertRecordWithID, delete: deleteRecord); and
\* the step that hydrates a row adds no transport call.
C24_MethodsBoundToOwner ==
  /\ [](edit.method # "" =>
          /\ edit.call[1].call = TransportOf(edit.method)
          /\ edit.call[1].table = TableOf(edit.on)
          /\ edit.call[1].arg = JsGet(RawOf(edit.on).o, "id"))
  /\ [][hydrated' # hydrated /\ hydrated = JsUndefined => recordCalls' = recordCalls]_vars

\* update was invoked on the record of the embedded link author
C24_Witness ==
  /\ edit.method = "update"
  /\ edit.on = "author"
  /\ edit.call[1].table = "authors"
  /\ recordCalls # <<>>

\* C25: an assignment, an addition or a deletion of a property (a field or a
\* method) attempted on a record, the hydrated one or the record of an
\* embedded link, leaves the hydrated record as it was; and update returns a
\* record built from the response while the record it was invoked on stays
\* as it was.
C25_RecordsAreReadOnly ==
  /\ []((edit.attempts > 0 /\ edit.wasRecord) => hydrated = edit.before)
  /\ []((edit.method = "update" /\ edit.error = "") =>
          /\ edit.updated.t = "object"
          /\ edit.updated.o.keys = <<"id", "name">>
          /\ edit.updated.o.val["name"] = JsString("Bob")
          /\ edit.updated.o.frozen)
  /\ [][edit'.invocations # edit.invocations => hydrated' = hydrated]_vars

\* a program tried to change the record of an embedded link, and update
\* returned a record
C25_Witness ==
  /\ edit.attempts > 0
  /\ edit.target = "author"
  /\ edit.wasRecord
  /\ edit.method = "update"
  /\ edit.updated.t = "object"


(***************************************************************************)
(* Properties of the async iterator and of failures.                       *)
(***************************************************************************)
RECURSIVE RecordsOf(_, _)
\* the records of the first n pages of a server, in page order
RecordsOf(sv, n) ==
  IF n = 0 THEN <<>> ELSE RecordsOf(sv, n - 1) \o answer(sv, n).records

\* C28: the elements that for await (const record of query) has received
\* are the records of the pages answered so far, in page order, and none of
\* them is undefined.
C28_AsyncIteratorYieldsRecords ==
  itRun.method = "asyncIterator" =>
    /\ \A i \in 1..Len(consumer.results) : consumer.results[i] # Undefined
    /\ consumer.results = RecordsOf(itServer, Len(itMores))


\* C26: an operation whose transport call failed has failed with the
\* transport's error and has gone no further. A create or createMany whose
\* insert failed has made that one call and no read, and one whose read
\* failed has made the insert and that read, each once; a read, update or
\* delete of a record that failed has returned nothing and made its call
\* once; an iteration (getIterator, getAll, the async iterator) whose page
\* request failed is over with that request as its last, all earlier ones
\* answered, none in flight, and getAll has not returned.
C26_FailureEndsOperation ==
  /\ [](createOp.error = "FetcherError" =>
          /\ createOp.pc = "threw"
          /\ createOp.result = JsUndefined
          /\ createOp.calls \in {<<InsertOf(createOp.method)>>,
                                 <<InsertOf(createOp.method), "getRecord">>}
          /\ createOp.answer = "" => Len(createOp.calls) = 1)
  /\ [](edit.error = "FetcherError" => edit.updated = JsUndefined)
  /\ [][edit'.invocations # edit.invocations =>
          /\ Len(recordCalls') = Len(recordCalls) + 1
          /\ recordCalls'[Len(recordCalls')] = edit'.call[1]]_vars
  /\ [](consumer.error = "FetcherError" =>
          /\ gen.pc = "done"
          /\ inflight = 0
          /\ ~consumer.returned
          /\ Len(itRequests) = Len(itMores) + 1)

\* an insert failed, an update failed and the second page request of a
\* getAll failed
C26_Witness ==
  /\ createOp.error = "FetcherError"
  /\ createOp.calls = <<"bulkInsertTableRecords">>
  /\ edit.error = "FetcherError"
  /\ edit.method = "update"
  /\ consumer.error = "FetcherError"
  /\ itRun.method = "getAll"
  /\ Len(itRequests) = 2


(***************************************************************************)
(* Properties of a failed branch resolution.                               *)
(***************************************************************************)
\* C29: the step in which an operation's resolution fails leaves the
\* memoized branch as it was; an operation that starts while no branch is
\* memoized evaluates the list from its first element; and an operation
\* fails only when its own loop found every element of the list empty, so
\* an operation that meets a non-empty element after an earlier failure
\* succeeds.
C29_FailureNotMemoized ==
  /\ [][\A p \in Ops :
          (ops[p].pc # "failed" /\ ops'[p].pc = "failed") => branch' = branch]_vars
  /\ [][\A p \in Ops :
          (ops[p].pc = "idle" /\ ops'[p].pc # "idle" /\ ~Truthy(branch)) =>
            /\ ops'[p].pc \in {"loop", "wrapper"}
            /\ ops'[p].i = 1]_vars
  /\ [](\A p \in Ops :
          ops[p].pc = "failed" =>
            /\ Len(ops[p].obs) = Len(strategies)
            /\ \A k \in 1..Len(ops[p].obs) : ~Truthy(ops[p].obs[k]))

\* the first operation failed with no branch memoized, and the second one
\* called the resolver again and resolved
C29_Witness ==
  /\ strategies = <<ResolverStrategy("r1")>>
  /\ ops[1].pc = "failed"
  /\ ops[2].pc = "resolved"
  /\ ops[2].obs = <<"main">>
  /\ invoked[1] = 2
  /\ branch = "main"


(***************************************************************************)
(* Properties of construction.                                             *)
(***************************************************************************)
\* the database URL and the API key are there, from the options or (class
\* of buildClient) from the environment, and for BaseClient the branch
\* option too
Configured ==
  IF boot.impl = "BaseClient"
  THEN /\ Truthy(boot.options.databaseURL)
       /\ Truthy(boot.options.apiKey)
       /\ Truthy(boot.options.branch)
  ELSE /\ Truthy(boot.options.databaseURL) \/ Truthy(boot.env.databaseURL)
       /\ Truthy(boot.options.apiKey) \/ Truthy(boot.env.apiKey)

\* C27: a client whose database URL or API key (for BaseClient: or branch
\* option) is missing is never constructed: its construction throws, no
\* repository namespace is built and no resolver or transport call is made;
\* and nothing is built or called before a construction succeeds.
C27_ConfigurationFailsFast ==
  /\ [](~Configured =>
          /\ boot.pc \in {"new", "threw"}
          /\ ~boot.db
          /\ boot.calls = 0)
  /\ [][(boot.pc = "new" /\ ~Configured /\ boot' # boot) =>
          boot'.pc = "threw" /\ boot'.error # ""]_vars
  /\ [](boot.pc \in {"new", "threw"} => ~boot.db /\ boot.calls = 0)

\* a construction of the class of buildClient threw for want of an API key
C27_Witness ==
  /\ boot.pc = "threw"
  /\ boot.impl = "buildClient"
  /\ boot.options.databaseURL = "set"
  /\ boot.options.apiKey = "undefined"
  /\ boot.env.apiKey = "undefined"

====
